---- MODULE Spec2Model ----
(***************************************************************************)
(* A model of gddoc2yml's inline markup transpiler, format_text_block      *)
(* (src/src/gddoc2yml/gdxml_helpers.py), and of the helpers it calls.      *)
(*                                                                         *)
(* Texts are TLA+ strings.  Positions are Python's: 0-based, and a slice   *)
(* s[a:b] holds the characters a .. b-1.  One step of the model is one     *)
(* iteration of one of the function's two loops, or its final check.       *)
(*                                                                         *)
(* A second specification, BuildSpec, models the run of main               *)
(* (src/src/gddoc2yml/gdxml2yml.py): the symbol table is built from the    *)
(* XML files of the input path, then the output files are written.         *)
(***************************************************************************)
EXTENDS Integers, Sequences, FiniteSets, TLC

VARIABLES
    input,                    \* the arguments of the call: text, context, classes, current_class
    classes,                  \* state.classes: class name -> class definition
    current_class,            \* state.current_class
    context,                  \* the context argument (a definition, or none)
    num_errors,               \* state.num_errors
    num_warnings,             \* state.num_warnings
    errors,                   \* the messages print_error has printed, in order
    warnings,                 \* the messages print_warning has printed, in order
    parity_hits,              \* hits added to state.script_language_parity_check
    pc,                       \* where the call is: linebreaks, tags, tag, end, done, raised
    text,                     \* local: text
    pos,                      \* local: pos
    endq_pos,                 \* local: endq_pos
    pre_text,                 \* local: pre_text
    post_text,                \* local: post_text
    tag_text,                 \* local: tag_text
    tag_depth,                \* local: tag_depth
    inside_code,              \* local: inside_code
    inside_code_tag,          \* local: inside_code_tag
    inside_code_tabs,         \* local: inside_code_tabs
    ignore_code_warnings,     \* local: ignore_code_warnings
    has_codeblocks_gdscript,  \* local: has_codeblocks_gdscript
    has_codeblocks_csharp,    \* local: has_codeblocks_csharp
    result,                   \* the returned text (once pc = "done")
    raised,                   \* the exception that ended the call (once pc = "raised")
    taken,                    \* what each iteration of the tag loop did, in order
    earlier,                  \* the call made before this one, if any, and what it returned
    xml_data,                 \* gdxml2yml: the documents read, in the order of their names
    todo,                     \* what the loop under way has yet to iterate over
    class_files,              \* gdxml2yml, main: local class_files
    written,                  \* gdxml2yml: the files written to the output folder, in order;
                              \* in OperatorSpec and WalkSpec: what the calls have returned
    inherits,                 \* gdxml2yml, _get_class_inheritance: local inherits
    all_inherits              \* gdxml2yml, _get_class_inheritance: local all_inherits

vars == <<input, classes, current_class, context, num_errors, num_warnings, errors,
          warnings, parity_hits, pc, text, pos, endq_pos, pre_text, post_text, tag_text,
          tag_depth, inside_code,
          inside_code_tag, inside_code_tabs, ignore_code_warnings,
          has_codeblocks_gdscript, has_codeblocks_csharp, result, raised, taken,
          earlier, xml_data, todo, class_files, written, inherits, all_inherits>>

---------------------------------------------------------------------------
(* Python's str operations. *)

Min(a, b) == IF a < b THEN a ELSE b

Max(a, b) == IF a > b THEN a ELSE b

\* s[a:b] for a >= 0 and b >= 0
Slice(s, a, b) == IF a >= Min(b, Len(s)) THEN "" ELSE SubSeq(s, a + 1, Min(b, Len(s)))

\* s[a:]
SliceFrom(s, a) == Slice(s, a, Len(s))

\* s[i], for 0 <= i < len(s)
CharAt(s, i) == SubSeq(s, i + 1, i + 1)

\* the end of a slice as Python places it: a negative end counts from the right
SliceEnd(s, e) == IF e < 0 THEN Max(Len(s) + e, 0) ELSE Min(e, Len(s))

RECURSIVE FindFrom(_, _, _, _)
\* the least i >= a with s[i : i + len(sub)] = sub and i + len(sub) <= e, or -1
FindFrom(s, sub, a, e) ==
    CASE a + Len(sub) > e -> -1
      [] a + Len(sub) <= e /\ SubSeq(s, a + 1, a + Len(sub)) = sub -> a
      [] OTHER -> FindFrom(s, sub, a + 1, e)

\* the start of a slice as Python places it: a negative start counts from the right
SliceStart(s, a) == IF a < 0 THEN Max(Len(s) + a, 0) ELSE a

\* s.find(sub, start, end)
FindIn(s, sub, start, end) == FindFrom(s, sub, SliceStart(s, start), SliceEnd(s, end))

\* s.find(sub, start)
Find(s, sub, start) == FindFrom(s, sub, SliceStart(s, start), Len(s))

StartsWith(s, p) == Len(s) >= Len(p) /\ SubSeq(s, 1, Len(p)) = p

EndsWith(s, p) == Len(s) >= Len(p) /\ SubSeq(s, Len(s) - Len(p) + 1, Len(s)) = p

Whitespace == {" ", "\t", "\n", "\r", "\f"}

RECURSIVE LStrip(_)
LStrip(s) == IF s # "" /\ Head(s) \in Whitespace THEN LStrip(Tail(s)) ELSE s

RECURSIVE RStrip(_)
RStrip(s) ==
    IF s # "" /\ CharAt(s, Len(s) - 1) \in Whitespace
    THEN RStrip(Slice(s, 0, Len(s) - 1)) ELSE s

\* s.strip()
Strip(s) == RStrip(LStrip(s))

RECURSIVE Split(_, _)
\* s.split(sep), sep one character: the parts, in order
Split(s, sep) ==
    LET p == Find(s, sep, 0)
    IN  IF p = -1 THEN <<s>>
        ELSE <<Slice(s, 0, p)>> \o Split(SliceFrom(s, p + 1), sep)

Range(f) == {f[i] : i \in DOMAIN f}

RECURSIVE Replace(_, _, _)
\* s.replace(old, new)
Replace(s, old, new) ==
    LET p == Find(s, old, 0)
    IN  IF p = -1 THEN s
        ELSE Slice(s, 0, p) \o new \o Replace(SliceFrom(s, p + Len(old)), old, new)

Letters == {"a", "b", "c", "d", "e", "f", "g", "h", "i", "j", "k", "l", "m",
            "n", "o", "p", "q", "r", "s", "t", "u", "v", "w", "x", "y", "z",
            "A", "B", "C", "D", "E", "F", "G", "H", "I", "J", "K", "L", "M",
            "N", "O", "P", "Q", "R", "S", "T", "U", "V", "W", "X", "Y", "Z"}

Digits == {"0", "1", "2", "3", "4", "5", "6", "7", "8", "9"}

\* c.isalnum(), c one character
IsAlnum(c) == c \in Letters \cup Digits

\* the grave accent, which cannot be written inside a string of this language
Backtick == SubSeq("`'", 1, 1)

\* the delimiter of inline code in the output, two grave accents
Literal == Backtick \o Backtick

\* the fence of a code block in the output, three grave accents
Fence == Backtick \o Backtick \o Backtick

---------------------------------------------------------------------------
(* What gdxml_helpers.py imports from make_rst: the tag vocabulary, the     *)
(* characters that may stand next to a link, and the pattern of a link     *)
(* into the engine's own documentation.                                    *)

RESERVED_CODEBLOCK_TAGS == {"codeblock", "gdscript", "csharp"}

RESERVED_CROSSLINK_TAGS == {"constructor", "method", "operator", "member", "signal",
                            "constant", "enum", "annotation", "theme_item", "param"}

MARKUP_ALLOWED_PRECEDENT == {" ", "-", ":", "/", "'", "\"", "<", "(", "[", "{"}

MARKUP_ALLOWED_SUBSEQUENT == {" ", "-", ".", ",", ":", ";", "!", "?", "\\", "/", "'",
                              "\"", ")", "]", "}", ">"}

\* the greedy match of (.*)\.html(#.*)?$ on s: the largest p <= k at which ".html" stands,
\* followed by nothing or by "#...", or -1
LastDocsSplit(s, k) ==
    LET At(i) == /\ Slice(s, i, i + 5) = ".html"
                 /\ (i + 5 = Len(s) \/ CharAt(s, i + 5) = "#")
    IN  IF \E i \in 0..k : At(i)
        THEN CHOOSE i \in 0..k : At(i) /\ \A j \in (i + 1)..k : ~At(j)
        ELSE -1

\* GODOT_DOCS_PATTERN.search(url): whether it matches, its groups and lastindex
GODOT_DOCS_PATTERN(url) ==
    LET prefix == "$DOCS_URL/"
        body   == SliceFrom(url, Len(prefix))
        p      == IF StartsWith(url, prefix) THEN LastDocsSplit(body, Len(body) - 5) ELSE -1
    IN  IF p = -1
        THEN [match |-> FALSE, groups |-> <<"", "">>, lastindex |-> 0]
        ELSE IF p + 5 = Len(body)
             THEN [match |-> TRUE, groups |-> <<Slice(body, 0, p), "None">>, lastindex |-> 1]
             ELSE [match |-> TRUE, groups |-> <<Slice(body, 0, p), SliceFrom(body, p + 5)>>,
                   lastindex |-> 2]

---------------------------------------------------------------------------
(* The helpers of gdxml_helpers.py.  A helper that may print errors yields *)
(* its value together with the messages it printed, in order.              *)

GODOT_DOC_URL == "https://docs.godotengine.org/en/stable/"

make_link(url, title) ==
    LET m == GODOT_DOCS_PATTERN(url)
    IN  IF m.match /\ m.lastindex = 2
        THEN IF title # ""
             THEN "[" \o title \o "](" \o GODOT_DOC_URL \o "/" \o m.groups[1] \o ".html"
                      \o m.groups[2] \o ")"
             ELSE GODOT_DOC_URL \o "/" \o m.groups[1] \o ".html" \o m.groups[2]
        ELSE IF m.match /\ m.lastindex = 1
        THEN IF title # ""
             THEN "[" \o title \o "](" \o GODOT_DOC_URL \o "/" \o m.groups[1] \o ".html)"
             ELSE GODOT_DOC_URL \o "/" \o m.groups[1] \o ".html" \o m.groups[2]
        ELSE IF title # "" THEN "[" \o title \o "](" \o url \o ")"
        ELSE url

\* make_enum that yields no text for an enum it does not find (line 123)
make_enum_silent(t, is_bitfield) ==
    LET p  == Find(t, ".", 0)
        c0 == IF p >= 0 THEN Slice(t, 0, p) ELSE current_class
        e0 == IF p >= 0 THEN SliceFrom(t, p + 1) ELSE t
        c  == IF p >= 0
              THEN (IF c0 = "Variant" THEN "@GlobalScope" ELSE c0)
              ELSE IF c0 \in DOMAIN classes /\ e0 \notin DOMAIN classes[c0].enums
                   THEN "@GlobalScope" ELSE c0
        e  == IF p >= 0 /\ c0 = "Variant" THEN "Variant." \o e0 ELSE e0
    IN  IF c \in DOMAIN classes /\ e \in DOMAIN classes[c].enums
        THEN IF is_bitfield
             THEN [out  |-> "<xref href=\"" \o c \o "." \o e \o "\"></xref>",
                   errs |-> IF ~classes[c].enums[e].is_bitfield
                            THEN <<current_class \o ".xml: Enum \"" \o t \o "\" is not bitfield.">>
                            ELSE <<>>]
             ELSE [out |-> "<xref href=\"" \o e \o "\"></xref>", errs |-> <<>>]
        ELSE [out  |-> "",
              errs |-> IF c \o "." \o e # "Vector3.Axis"
                       THEN <<current_class \o ".xml: Unresolved enum \"" \o t \o "\".">>
                       ELSE <<>>]

\* make_enum that looks for a bare name in the current class only
make_enum_current_only(t, is_bitfield) ==
    LET p  == Find(t, ".", 0)
        c0 == IF p >= 0 THEN Slice(t, 0, p) ELSE current_class
        e0 == IF p >= 0 THEN SliceFrom(t, p + 1) ELSE t
        c  == IF p >= 0
              THEN (IF c0 = "Variant" THEN "@GlobalScope" ELSE c0)
              ELSE c0
        e  == IF p >= 0 /\ c0 = "Variant" THEN "Variant." \o e0 ELSE e0
    IN  IF c \in DOMAIN classes /\ e \in DOMAIN classes[c].enums
        THEN IF is_bitfield
             THEN [out  |-> "<xref href=\"" \o c \o "." \o e \o "\"></xref>",
                   errs |-> IF ~classes[c].enums[e].is_bitfield
                            THEN <<current_class \o ".xml: Enum \"" \o t \o "\" is not bitfield.">>
                            ELSE <<>>]
             ELSE [out |-> "<xref href=\"" \o e \o "\"></xref>", errs |-> <<>>]
        ELSE [out  |-> t,
              errs |-> IF c \o "." \o e # "Vector3.Axis"
                       THEN <<current_class \o ".xml: Unresolved enum \"" \o t \o "\".">>
                       ELSE <<>>]

make_enum(t, is_bitfield) ==
    LET p  == Find(t, ".", 0)
        c0 == IF p >= 0 THEN Slice(t, 0, p) ELSE current_class
        e0 == IF p >= 0 THEN SliceFrom(t, p + 1) ELSE t
        c  == IF p >= 0
              THEN (IF c0 = "Variant" THEN "@GlobalScope" ELSE c0)
              ELSE IF c0 \in DOMAIN classes /\ e0 \notin DOMAIN classes[c0].enums
                   THEN "@GlobalScope" ELSE c0
        e  == IF p >= 0 /\ c0 = "Variant" THEN "Variant." \o e0 ELSE e0
    IN  IF c \in DOMAIN classes /\ e \in DOMAIN classes[c].enums
        THEN IF is_bitfield
             THEN [out  |-> "<xref href=\"" \o c \o "." \o e \o "\"></xref>",
                   errs |-> IF ~classes[c].enums[e].is_bitfield
                            THEN <<current_class \o ".xml: Enum \"" \o t \o "\" is not bitfield.">>
                            ELSE <<>>]
             ELSE [out |-> "<xref href=\"" \o e \o "\"></xref>", errs |-> <<>>]
        ELSE [out  |-> t,
              errs |-> IF c \o "." \o e # "Vector3.Axis"
                       THEN <<current_class \o ".xml: Unresolved enum \"" \o t \o "\".">>
                       ELSE <<>>]

\* make_type that links nothing: every type becomes inline code
make_type_unlinked(klass) == [out |-> Literal \o klass \o Literal, errs |-> <<>>]

make_type(klass) ==
    LET is_array  == EndsWith(klass, "[]")
        link_type == IF is_array THEN Slice(klass, 0, Len(klass) - 2) ELSE klass
    IN  IF Find(klass, "*", 0) # -1
        THEN [out |-> Literal \o klass \o Literal, errs |-> <<>>]
        ELSE IF link_type \in DOMAIN classes
        THEN [out  |-> IF is_array
                       THEN "<xref href=\"" \o link_type
                                \o "\" data-throw-if-not-resolved=\"false\">" \o link_type
                                \o "[]</xref>"
                       ELSE "<xref href=\"" \o link_type
                                \o "\" data-throw-if-not-resolved=\"false\"></xref>",
              errs |-> <<>>]
        ELSE IF klass = "void"
        THEN [out |-> "void", errs |-> <<>>]
        ELSE [out  |-> IF is_array THEN Literal \o link_type \o "[]" \o Literal
                       ELSE Literal \o link_type \o Literal,
              errs |-> <<current_class \o ".xml: Unresolved type \"" \o link_type \o "\".">>]

is_in_tagset(t, tagset) ==
    \E tag \in tagset :
        \/ t = tag
        \/ StartsWith(t, tag \o " ")
        \/ StartsWith(t, tag \o "=")

\* get_tag_and_args, had it split at the first space whenever there is one, and at "="
\* only where there is no space
get_tag_and_args_space_first(t) ==
    LET space_pos  == Find(t, " ", 0)
        assign_pos == Find(t, "=", 0)
        delim_pos  == IF space_pos >= 0 THEN space_pos ELSE assign_pos
        tag_name   == IF delim_pos >= 0 THEN Slice(t, 0, delim_pos) ELSE t
        arguments  == IF delim_pos >= 0 THEN Strip(SliceFrom(t, delim_pos + 1)) ELSE ""
        closing    == StartsWith(tag_name, "/")
    IN  [raw       |-> t,
         name      |-> IF closing THEN SliceFrom(tag_name, 1) ELSE tag_name,
         arguments |-> arguments,
         closing   |-> closing]

get_tag_and_args(t) ==
    LET space_pos  == Find(t, " ", 0)
        assign_pos == Find(t, "=", 0)
        delim0     == IF space_pos >= 0 THEN space_pos ELSE -1
        delim_pos  == IF assign_pos >= 0 /\ (delim0 < 0 \/ assign_pos < delim0)
                      THEN assign_pos ELSE delim0
        tag_name   == IF delim_pos >= 0 THEN Slice(t, 0, delim_pos) ELSE t
        arguments  == IF delim_pos >= 0 THEN Strip(SliceFrom(t, delim_pos + 1)) ELSE ""
        closing    == StartsWith(tag_name, "/")
    IN  [raw       |-> t,
         name      |-> IF closing THEN SliceFrom(tag_name, 1) ELSE tag_name,
         arguments |-> arguments,
         closing   |-> closing]

\* parse_link_target that never splits the class off: every target is one of current_class
parse_link_target_unqualified(link_target) == <<current_class, link_target>>

parse_link_target(link_target) ==
    IF Find(link_target, ".", 0) # -1
    THEN Split(link_target, ".")
    ELSE <<current_class, link_target>>

NoContext == [definition_name |-> "", name |-> "", parameters |-> <<>>]

format_context_name(ctx) ==
    IF ctx = NoContext THEN "unknown context"
    ELSE ctx.definition_name \o " \"" \o ctx.name \o "\" description"

RECURSIVE EscapeEvery(_, _, _, _)
\* the loop of lines 226-232 and 235-241: each ch found before until_pos gets a backslash
EscapeEvery(t, ch, p, until_pos) ==
    LET q == FindIn(t, ch, p, until_pos)
    IN  IF q = -1 THEN t
        ELSE EscapeEvery(Slice(t, 0, q) \o "\\" \o ch \o SliceFrom(t, q + 1), ch, q + 2,
                         until_pos)

RECURSIVE EscapeUnderscores(_, _, _)
\* the loop of lines 244-253: each "_" found before until_pos whose next character is not
\* alphanumeric gets a backslash
EscapeUnderscores(t, p, until_pos) ==
    LET q == FindIn(t, "_", p, until_pos)
    IN  IF q = -1 THEN t
        ELSE IF ~IsAlnum(CharAt(t, q + 1))
        THEN EscapeUnderscores(Slice(t, 0, q) \o "\\_" \o SliceFrom(t, q + 1), q + 2, until_pos)
        ELSE EscapeUnderscores(t, q + 1, until_pos)

escape_rst(t, until_pos) ==
    EscapeUnderscores(EscapeEvery(EscapeEvery(t, "\\", 0, until_pos), "*", 0, until_pos),
                      0, until_pos)

RECURSIVE CountTabs(_, _, _)
\* the number of tabs that follow position p of s, counted from n
CountTabs(s, p, n) ==
    IF p + n + 1 < Len(s) /\ CharAt(s, p + n + 1) = "\t" THEN CountTabs(s, p, n + 1) ELSE n

RECURSIVE RemoveTabs(_, _, _, _, _)
\* the loop of lines 277-298 of format_codeblock: the code text and the errors printed
RemoveTabs(code_text, p, indent_level, name, errs) ==
    LET code_pos == Find(code_text, "\n", p)
        to_skip  == CountTabs(code_text, code_pos, 0)
        errs2    == IF to_skip > indent_level
                    THEN Append(errs, current_class
                            \o ".xml: Four spaces should be used for indentation within ["
                            \o name \o "].")
                    ELSE errs
    IN  IF code_pos = -1 THEN [text |-> code_text, errs |-> errs]
        ELSE IF Len(SliceFrom(code_text, code_pos + to_skip + 1)) = 0
        THEN RemoveTabs(Slice(code_text, 0, code_pos) \o "\n", code_pos + 1, indent_level,
                        name, errs2)
        ELSE RemoveTabs(Slice(code_text, 0, code_pos) \o "\n    "
                            \o SliceFrom(code_text, code_pos + to_skip + 1),
                        code_pos + 5 - to_skip, indent_level, name, errs2)

\* format_codeblock, had a line with too many tabs made it return None as a missing
\* closing tag does
format_codeblock_strict(tag_state, post, indent_level) ==
    LET end_pos == Find(post, "[/" \o tag_state.name \o "]", 0)
        opening_formatted ==
            IF Len(tag_state.arguments) > 0
            THEN tag_state.name \o " " \o tag_state.arguments
            ELSE tag_state.name
        tabs      == RemoveTabs(Slice(post, Len("[" \o opening_formatted \o "]"), end_pos),
                                0, indent_level, tag_state.name, <<>>)
        code_text == Replace(tabs.text, "\n    ", "\n")
        lang_name == IF tag_state.name = "codeblock" THEN "gdscript" ELSE tag_state.name
    IN  IF end_pos = -1
        THEN [ok |-> FALSE, text |-> "", len |-> 0,
              errs |-> <<current_class \o ".xml: Tag depth mismatch for [" \o tag_state.name
                          \o "]: no closing [/" \o tag_state.name \o "].">>]
        ELSE [ok   |-> tabs.errs = <<>>,
              text |-> "\n[" \o opening_formatted \o "]" \o Fence \o lang_name \o code_text \o Fence
                           \o SliceFrom(post, end_pos),
              len  |-> Len("\n[" \o opening_formatted \o "]" \o code_text),
              errs |-> tabs.errs]

\* format_codeblock: ok is FALSE where the code returns None
format_codeblock(tag_state, post, indent_level) ==
    LET end_pos == Find(post, "[/" \o tag_state.name \o "]", 0)
        opening_formatted ==
            IF Len(tag_state.arguments) > 0
            THEN tag_state.name \o " " \o tag_state.arguments
            ELSE tag_state.name
        tabs      == RemoveTabs(Slice(post, Len("[" \o opening_formatted \o "]"), end_pos),
                                0, indent_level, tag_state.name, <<>>)
        code_text == Replace(tabs.text, "\n    ", "\n")
        lang_name == IF tag_state.name = "codeblock" THEN "gdscript" ELSE tag_state.name
    IN  IF end_pos = -1
        THEN [ok |-> FALSE, text |-> "", len |-> 0,
              errs |-> <<current_class \o ".xml: Tag depth mismatch for [" \o tag_state.name
                          \o "]: no closing [/" \o tag_state.name \o "].">>]
        ELSE [ok   |-> TRUE,
              text |-> "\n[" \o opening_formatted \o "]" \o Fence \o lang_name \o code_text \o Fence
                           \o SliceFrom(post, end_pos),
              len  |-> Len("\n[" \o opening_formatted \o "]" \o code_text),
              errs |-> tabs.errs]

---------------------------------------------------------------------------
(* format_text_block, lines 371-964.  The first loop (lines 376-410)       *)
(* rewrites the line breaks; the second (lines 427-956) replaces the tags. *)

\* print_error, had it printed the messages without counting them
PrintErrorsUncounted(errs) ==
    /\ errors' = errors \o errs
    /\ num_errors' = num_errors

\* print_error, once per message of errs: the messages are printed and counted
PrintErrors(errs) ==
    /\ errors' = errors \o errs
    /\ num_errors' = num_errors + Len(errs)

\* print_warning, once per message of warns
PrintWarnings(warns) ==
    /\ warnings' = warnings \o warns
    /\ num_warnings' = num_warnings + Len(warns)

context_name == format_context_name(context)

code_warning_if_intended_string == "If this is intended, use [code skip-lint]...[/code]."

\* the locals of the tag loop that last from one iteration to the next
TagLocals == <<tag_depth, inside_code, inside_code_tag, inside_code_tabs,
               ignore_code_warnings, has_codeblocks_gdscript, has_codeblocks_csharp>>

\* the locals that hold the tag of the current iteration
TagParts == <<endq_pos, pre_text, post_text, tag_text>>

\* what a call never writes
Frame == <<input, classes, current_class, context, earlier, xml_data, todo, class_files,
          written, inherits, all_inherits>>

(* The line-break loop: the line break at or after pos, the tabs after it, *)
(* and the text on both sides.                                             *)

NlPos == Find(text, "\n", pos)

NlIndent == CountTabs(text, NlPos, 0)

NlPreText == Slice(text, 0, NlPos)

NlPostText == SliceFrom(text, NlPos + NlIndent + 1)

\* OpensBlock without the [codeblock] cases of lines 392-393
OpensBlockScriptsOnly(post) ==
    \/ StartsWith(post, "[gdscript]")
    \/ StartsWith(post, "[gdscript ")
    \/ StartsWith(post, "[csharp]")
    \/ StartsWith(post, "[csharp ")

\* lines 391-398
OpensBlock(post) ==
    \/ StartsWith(post, "[codeblock]")
    \/ StartsWith(post, "[codeblock ")
    \/ StartsWith(post, "[gdscript]")
    \/ StartsWith(post, "[gdscript ")
    \/ StartsWith(post, "[csharp]")
    \/ StartsWith(post, "[csharp ")

\* lines 399-405: a line break followed by a block tag
LineBreakCodeblock ==
    /\ pc = "linebreaks"
    /\ NlPos # -1
    /\ OpensBlock(NlPostText)
    /\ LET tag  == Split(SliceFrom(NlPostText, 1), "]")[1]
           tag_state == get_tag_and_args(tag)
           r         == format_codeblock(tag_state, NlPostText, NlIndent)
       IN  /\ PrintErrors(r.errs)
           /\ IF r.ok
              THEN /\ text' = NlPreText \o r.text
                   /\ pos' = NlPos + r.len
                   /\ UNCHANGED <<pc, result>>
              ELSE /\ pc' = "done"
                   /\ result' = ""
                   /\ UNCHANGED <<text, pos>>
    /\ UNCHANGED <<Frame, TagLocals, TagParts, num_warnings, warnings, parity_hits, raised,
                   taken>>

\* lines 408-410, had pos been moved past one of the two line breaks only
LineBreakParagraphRescans ==
    /\ pc = "linebreaks"
    /\ NlPos # -1
    /\ ~OpensBlock(NlPostText)
    /\ text' = NlPreText \o "\n\n" \o NlPostText
    /\ pos' = NlPos + 1
    /\ UNCHANGED <<Frame, TagLocals, TagParts, num_errors, errors, num_warnings, warnings,
                   parity_hits, pc, result, raised, taken>>

\* lines 408-410, had the line break been kept as the single line break it was
LineBreakParagraphSingle ==
    /\ pc = "linebreaks"
    /\ NlPos # -1
    /\ ~OpensBlock(NlPostText)
    /\ text' = NlPreText \o "\n" \o NlPostText
    /\ pos' = NlPos + 1
    /\ UNCHANGED <<Frame, TagLocals, TagParts, num_errors, errors, num_warnings, warnings,
                   parity_hits, pc, result, raised, taken>>

\* lines 408-410: any other line break
LineBreakParagraph ==
    /\ pc = "linebreaks"
    /\ NlPos # -1
    /\ ~OpensBlock(NlPostText)
    /\ text' = NlPreText \o "\n\n" \o NlPostText
    /\ pos' = NlPos + 2
    /\ UNCHANGED <<Frame, TagLocals, TagParts, num_errors, errors, num_warnings, warnings,
                   parity_hits, pc, result, raised, taken>>

\* lines 380-381 and 412-428: no line break is left; the text before the first "[" is
\* escaped and the tag loop starts
LineBreaksDone ==
    /\ pc = "linebreaks"
    /\ NlPos = -1
    /\ text' = escape_rst(text, Find(text, "[", 0))
    /\ pos' = 0
    /\ tag_depth' = 0
    /\ inside_code' = FALSE
    /\ inside_code_tag' = ""
    /\ inside_code_tabs' = FALSE
    /\ ignore_code_warnings' = FALSE
    /\ has_codeblocks_gdscript' = FALSE
    /\ has_codeblocks_csharp' = FALSE
    /\ pc' = "tags"
    /\ UNCHANGED <<Frame, TagParts, num_errors, errors, num_warnings, warnings, parity_hits,
                   result, raised, taken>>

(* The tag loop.  An iteration is two steps: the head of the loop finds    *)
(* the next tag (lines 430-440), then one arm of the chain of lines        *)
(* 443-933 replaces it and the text is put together again (lines 935-956). *)

BracPos == Find(text, "[", pos)

EndqPos == IF BracPos = -1 THEN -1 ELSE Find(text, "]", BracPos + 1)

\* lines 430-440: the next "[" and the "]" after it delimit the tag
NextTag ==
    /\ pc = "tags"
    /\ BracPos # -1
    /\ EndqPos # -1
    /\ pos' = BracPos
    /\ endq_pos' = EndqPos
    /\ pre_text' = Slice(text, 0, BracPos)
    /\ post_text' = SliceFrom(text, EndqPos + 1)
    /\ tag_text' = Slice(text, BracPos + 1, EndqPos)
    /\ pc' = "tag"
    /\ UNCHANGED <<Frame, TagLocals, num_errors, errors, num_warnings, warnings,
                   parity_hits, text, result, raised, taken>>

\* lines 430-436: no "[" is left, or no "]" after it: the loop ends
TagsDone ==
    /\ pc = "tags"
    /\ ~(BracPos # -1 /\ EndqPos # -1)
    /\ pc' = "end"
    /\ UNCHANGED <<Frame, TagLocals, TagParts, num_errors, errors, num_warnings, warnings,
                   parity_hits, text, pos, result, raised, taken>>

\* line 452
TagState == get_tag_and_args(tag_text)

\* the arm of the if/elif chain of lines 443-933 that handles the tag
Branch ==
    LET name == TagState.name
    IN  IF tag_text \in DOMAIN classes /\ ~inside_code THEN "class"
        ELSE IF inside_code THEN "inside_code"
        ELSE IF name = "codeblocks" THEN "codeblocks"
        ELSE IF is_in_tagset(name, RESERVED_CODEBLOCK_TAGS) THEN "codeblock"
        ELSE IF is_in_tagset(name, {"code"}) THEN "code"
        ELSE IF is_in_tagset(name, RESERVED_CROSSLINK_TAGS) THEN "crosslink"
        ELSE IF is_in_tagset(name, {"url"}) THEN "url"
        ELSE IF name = "br" THEN "br"
        ELSE IF name \in {"center", "i", "b", "u", "lb", "rb", "kbd"} THEN "format"
        ELSE "invalid"

\* What an arm leaves behind: the replacement of the tag, the text on both sides, the
\* locals, what it printed; escape: whether lines 935-953 run on post_text; exit: "next"
\* (the next iteration), "break", or the exception raised.
Same ==
    [tag_text |-> tag_text, pre_text |-> pre_text, post_text |-> post_text,
     tag_depth |-> tag_depth, inside_code |-> inside_code,
     inside_code_tag |-> inside_code_tag, inside_code_tabs |-> inside_code_tabs,
     ignore_code_warnings |-> ignore_code_warnings,
     has_codeblocks_gdscript |-> has_codeblocks_gdscript,
     has_codeblocks_csharp |-> has_codeblocks_csharp,
     errs |-> <<>>, warns |-> <<>>, hits |-> 0, escape |-> TRUE, exit |-> "next"]

\* lines 935-953: "*" and "_" of post are escaped up to its first "["
EscapePostText(post) ==
    LET next_brac_pos == Find(post, "[", 0)
    IN  EscapeUnderscores(EscapeEvery(post, "*", 0, next_brac_pos), 0, next_brac_pos)

\* the end of an iteration: what the arm printed is printed, its locals are kept, and
\* (lines 935-956) the text is put together again, unless the arm left the loop
Apply(branch, e) ==
    /\ PrintErrors(e.errs)
    /\ PrintWarnings(e.warns)
    /\ parity_hits' = parity_hits + e.hits
    /\ taken' = Append(taken,
                       [branch |-> branch, raw |-> tag_text, out |-> e.tag_text,
                        post |-> post_text, code |-> inside_code, errs |-> e.errs,
                        warns |-> e.warns, hits |-> e.hits, exit |-> e.exit])
    /\ IF e.exit \notin {"next", "break"}
       THEN /\ pc' = "raised"
            /\ raised' = e.exit
            /\ UNCHANGED <<text, pos, TagLocals, TagParts>>
       ELSE /\ tag_depth' = e.tag_depth
            /\ inside_code' = e.inside_code
            /\ inside_code_tag' = e.inside_code_tag
            /\ inside_code_tabs' = e.inside_code_tabs
            /\ ignore_code_warnings' = e.ignore_code_warnings
            /\ has_codeblocks_gdscript' = e.has_codeblocks_gdscript
            /\ has_codeblocks_csharp' = e.has_codeblocks_csharp
            /\ raised' = raised
            /\ UNCHANGED endq_pos
            /\ tag_text' = e.tag_text
            /\ pre_text' = e.pre_text
            /\ IF e.exit = "break"
               THEN /\ pc' = "end"
                    /\ UNCHANGED <<text, pos, post_text>>
               ELSE /\ pc' = "tags"
                    /\ post_text' = (IF e.escape /\ ~e.inside_code
                                     THEN EscapePostText(e.post_text) ELSE e.post_text)
                    /\ text' = e.pre_text \o e.tag_text \o post_text'
                    /\ pos' = Len(e.pre_text) + Len(e.tag_text)
    /\ UNCHANGED <<Frame, result>>

(* The arms of the chain, each an operator that yields what the arm leaves *)
(* behind, and the action that takes it.                                   *)

\* ClassArm without the test of line 444: the current class is linked like any other
ClassArmAlwaysLinks ==
    LET r == make_type(tag_text)
    IN  [Same EXCEPT !.tag_text = r.out, !.errs = r.errs]

\* lines 443-448: a tag that names a class, outside code
ClassArm ==
    IF tag_text = current_class
    THEN [Same EXCEPT !.tag_text = "**" \o tag_text \o "**"]
    ELSE LET r == make_type(tag_text)
         IN  [Same EXCEPT !.tag_text = r.out, !.errs = r.errs]

ClassTag ==
    /\ pc = "tag"
    /\ Branch = "class"
    /\ Apply("class", ClassArm)

\* InsideCodeArm without the test of ignore_code_warnings at line 476: skip-lint or not,
\* a closing tag of another name gets its warning
InsideCodeArmWarnsAlways ==
    LET ts == TagState
    IN  IF ts.closing /\ ts.name = inside_code_tag
        THEN IF is_in_tagset(ts.name, RESERVED_CODEBLOCK_TAGS)
             THEN IF pre_text = ""
                  THEN [Same EXCEPT !.exit = "IndexError"]
                  ELSE [Same EXCEPT !.tag_text = "",
                                    !.tag_depth = tag_depth - 1,
                                    !.inside_code = FALSE,
                                    !.ignore_code_warnings = FALSE,
                                    !.pre_text = IF CharAt(pre_text, Len(pre_text) - 1) = "\n"
                                                 THEN Slice(pre_text, 0, Len(pre_text) - 1)
                                                 ELSE pre_text]
             ELSE IF is_in_tagset(ts.name, {"code"})
             THEN [Same EXCEPT !.tag_text = Literal,
                               !.tag_depth = tag_depth - 1,
                               !.inside_code = FALSE,
                               !.ignore_code_warnings = FALSE]
             ELSE Same
        ELSE [Same EXCEPT
                 !.tag_text = "[" \o tag_text \o "]",
                 !.warns = IF ts.closing
                           THEN <<current_class \o ".xml: Found a code string "
                                    \o "that looks like a closing tag \"[" \o ts.raw \o "]\" "
                                    \o "in " \o context_name \o ". "
                                    \o code_warning_if_intended_string>>
                           ELSE <<>>]

\* InsideCodeArm without the test of the name at line 459: any closing tag is taken for
\* the end of the code region
InsideCodeArmAnyClose ==
    LET ts == TagState
    IN  IF ts.closing
        THEN IF is_in_tagset(ts.name, RESERVED_CODEBLOCK_TAGS)
             THEN IF pre_text = ""
                  THEN [Same EXCEPT !.exit = "IndexError"]
                  ELSE [Same EXCEPT !.tag_text = "",
                                    !.tag_depth = tag_depth - 1,
                                    !.inside_code = FALSE,
                                    !.ignore_code_warnings = FALSE,
                                    !.pre_text = IF CharAt(pre_text, Len(pre_text) - 1) = "\n"
                                                 THEN Slice(pre_text, 0, Len(pre_text) - 1)
                                                 ELSE pre_text]
             ELSE IF is_in_tagset(ts.name, {"code"})
             THEN [Same EXCEPT !.tag_text = Literal,
                               !.tag_depth = tag_depth - 1,
                               !.inside_code = FALSE,
                               !.ignore_code_warnings = FALSE]
             ELSE Same
        ELSE [Same EXCEPT !.tag_text = "[" \o tag_text \o "]"]

\* lines 456-484: any tag inside code
InsideCodeArm ==
    LET ts == TagState
    IN  IF ts.closing /\ ts.name = inside_code_tag
        THEN IF is_in_tagset(ts.name, RESERVED_CODEBLOCK_TAGS)
             THEN IF pre_text = ""
                  THEN [Same EXCEPT !.exit = "IndexError"]
                  ELSE [Same EXCEPT !.tag_text = "",
                                    !.tag_depth = tag_depth - 1,
                                    !.inside_code = FALSE,
                                    !.ignore_code_warnings = FALSE,
                                    !.pre_text = IF CharAt(pre_text, Len(pre_text) - 1) = "\n"
                                                 THEN Slice(pre_text, 0, Len(pre_text) - 1)
                                                 ELSE pre_text]
             ELSE IF is_in_tagset(ts.name, {"code"})
             THEN [Same EXCEPT !.tag_text = Literal,
                               !.tag_depth = tag_depth - 1,
                               !.inside_code = FALSE,
                               !.ignore_code_warnings = FALSE]
             ELSE Same
        ELSE [Same EXCEPT
                 !.tag_text = "[" \o tag_text \o "]",
                 !.warns = IF ~ignore_code_warnings /\ ts.closing
                           THEN <<current_class \o ".xml: Found a code string "
                                    \o "that looks like a closing tag \"[" \o ts.raw \o "]\" "
                                    \o "in " \o context_name \o ". "
                                    \o code_warning_if_intended_string>>
                           ELSE <<>>]

InsideCodeTag ==
    /\ pc = "tag"
    /\ Branch = "inside_code"
    /\ Apply("inside_code", InsideCodeArm)

\* CodeblocksArm whose closing form keeps the flags of the languages seen
CodeblocksArmKeepsSeen ==
    IF TagState.closing
    THEN [Same EXCEPT !.hits = IF ~has_codeblocks_gdscript \/ ~has_codeblocks_csharp
                               THEN 1 ELSE 0,
                      !.tag_depth = tag_depth - 1,
                      !.tag_text = "---",
                      !.inside_code_tabs = FALSE]
    ELSE [Same EXCEPT !.tag_depth = tag_depth + 1,
                      !.tag_text = "",
                      !.inside_code_tabs = TRUE]

\* lines 488-507: [codeblocks] and [/codeblocks]
CodeblocksArm ==
    IF TagState.closing
    THEN [Same EXCEPT !.hits = IF ~has_codeblocks_gdscript \/ ~has_codeblocks_csharp
                               THEN 1 ELSE 0,
                      !.has_codeblocks_gdscript = FALSE,
                      !.has_codeblocks_csharp = FALSE,
                      !.tag_depth = tag_depth - 1,
                      !.tag_text = "---",
                      !.inside_code_tabs = FALSE]
    ELSE [Same EXCEPT !.tag_depth = tag_depth + 1,
                      !.tag_text = "",
                      !.inside_code_tabs = TRUE]

CodeblocksTag ==
    /\ pc = "tag"
    /\ Branch = "codeblocks"
    /\ Apply("codeblocks", CodeblocksArm)

\* CodeblockArm that counts a language wherever its sample stands
CodeblockArmCountsOutside ==
    LET ts   == TagState
        args == Range(Split(ts.arguments, " "))
        e    == [Same EXCEPT !.tag_depth = tag_depth + 1,
                             !.inside_code = TRUE,
                             !.inside_code_tag = ts.name,
                             !.ignore_code_warnings = "skip-lint" \in args]
    IN  IF ts.name = "gdscript"
        THEN [e EXCEPT !.tag_text = "\n# [gdscript](#tab/gdscript)\n",
                       !.has_codeblocks_gdscript = TRUE,
                       !.errs = IF ~inside_code_tabs
                                THEN <<current_class \o ".xml: GDScript code block is "
                                         \o "used outside of [codeblocks] in "
                                         \o context_name \o ".">>
                                ELSE <<>>]
        ELSE IF ts.name = "csharp"
        THEN [e EXCEPT !.tag_text = "\n# [C#](#tab/csharp)\n",
                       !.has_codeblocks_csharp = TRUE,
                       !.errs = IF ~inside_code_tabs
                                THEN <<current_class \o ".xml: C# code block is "
                                         \o "used outside of [codeblocks] in "
                                         \o context_name \o ".">>
                                ELSE <<>>]
        ELSE [e EXCEPT !.hits = 1,
                       !.tag_text = IF "lang=text" \in args
                                    THEN "\n# [text](#tab/text)\n" ELSE ""]

\* lines 509-547: [codeblock], [gdscript], [csharp], and their closing forms outside code
CodeblockArm ==
    LET ts   == TagState
        args == Range(Split(ts.arguments, " "))
        e    == [Same EXCEPT !.tag_depth = tag_depth + 1,
                             !.inside_code = TRUE,
                             !.inside_code_tag = ts.name,
                             !.ignore_code_warnings = "skip-lint" \in args]
    IN  IF ts.name = "gdscript"
        THEN [e EXCEPT !.tag_text = "\n# [gdscript](#tab/gdscript)\n",
                       !.has_codeblocks_gdscript = inside_code_tabs \/ has_codeblocks_gdscript,
                       !.errs = IF ~inside_code_tabs
                                THEN <<current_class \o ".xml: GDScript code block is "
                                         \o "used outside of [codeblocks] in "
                                         \o context_name \o ".">>
                                ELSE <<>>]
        ELSE IF ts.name = "csharp"
        THEN [e EXCEPT !.tag_text = "\n# [C#](#tab/csharp)\n",
                       !.has_codeblocks_csharp = inside_code_tabs \/ has_codeblocks_csharp,
                       !.errs = IF ~inside_code_tabs
                                THEN <<current_class \o ".xml: C# code block is "
                                         \o "used outside of [codeblocks] in "
                                         \o context_name \o ".">>
                                ELSE <<>>]
        ELSE [e EXCEPT !.hits = 1,
                       !.tag_text = IF "lang=text" \in args
                                    THEN "\n# [text](#tab/text)\n" ELSE ""]

CodeblockTag ==
    /\ pc = "tag"
    /\ Branch = "codeblock"
    /\ Apply("codeblock", CodeblockArm)

\* the warning of lines 572-679 for a code string that matches what
CodeWarning(inside_code_text, what) ==
    current_class \o ".xml: Found a code string \"" \o inside_code_text
        \o "\" that matches " \o what \o " in " \o context_name \o ". "
        \o code_warning_if_intended_string

\* CodeLint that finds no match: it prints nothing
CodeLintSilent(code_text) == <<>>

\* lines 567-679: the warnings for the text between [code] and [/code]
CodeLint(code_text) ==
    LET inside_code_text == IF EndsWith(code_text, "()")
                            THEN Slice(code_text, 0, Len(code_text) - 2) ELSE code_text
        target            == parse_link_target(inside_code_text)
        target_class_name == target[1]
        target_name       == target[2]
        class_def         == classes[target_class_name]
        member            == target_class_name \o "." \o target_name
        kind ==
            IF target_name \in class_def.methods THEN <<"method">>
            ELSE IF target_name \in class_def.constructors THEN <<"constructor">>
            ELSE IF target_name \in class_def.operators THEN <<"operator">>
            ELSE IF target_name \in class_def.properties THEN <<"member">>
            ELSE IF target_name \in class_def.signals THEN <<"signal">>
            ELSE IF target_name \in class_def.annotations THEN <<"annotation">>
            ELSE IF target_name \in class_def.theme_items THEN <<"theme property">>
            ELSE IF target_name \in class_def.constants THEN <<"constant">>
            ELSE IF \E en \in DOMAIN class_def.enums : target_name \in class_def.enums[en].values
                 THEN <<"enum value">>
            ELSE <<>>
    IN  (IF inside_code_text \in DOMAIN classes
         THEN <<CodeWarning(inside_code_text, "one of the known classes")>> ELSE <<>>)
        \o (IF Len(target) = 2 /\ target_class_name \in DOMAIN classes /\ kind # <<>>
            THEN <<CodeWarning(inside_code_text, "the " \o member \o " " \o kind[1])>>
            ELSE <<>>)
        \o (IF /\ context.definition_name \in {"method", "signal", "annotation"}
               /\ inside_code_text \in Range(context.parameters)
            THEN <<CodeWarning(inside_code_text, "one of the parameters")>> ELSE <<>>)

\* lines 549-679: [code], and [/code] outside code
CodeArm ==
    LET ts          == TagState
        skip        == "skip-lint" \in Range(Split(ts.arguments, " "))
        endcode_pos == Find(text, "[/code]", endq_pos + 1)
        e           == [Same EXCEPT !.tag_text = Literal,
                                    !.tag_depth = tag_depth + 1,
                                    !.inside_code = TRUE,
                                    !.inside_code_tag = "code",
                                    !.ignore_code_warnings = skip]
    IN  IF skip THEN e
        ELSE IF endcode_pos = -1
        THEN [e EXCEPT !.errs = <<current_class \o ".xml: Tag depth mismatch for "
                                    \o "[code]: no closing [/code] in " \o context_name \o ".">>,
                       !.exit = "break"]
        ELSE [e EXCEPT !.warns = CodeLint(Slice(text, endq_pos + 1, endcode_pos))]

CodeTag ==
    /\ pc = "tag"
    /\ Branch = "code"
    /\ Apply("code", CodeArm)

\* ConstantClass that looks only into the first definition searched
ConstantClassFirstOnly(search_class_defs, target_class_name, target_name) ==
    LET d     == search_class_defs[1]
        found == \/ target_name \in d.constants
                 \/ \E en \in DOMAIN d.enums : target_name \in d.enums[en].values
    IN  [found |-> found, target_class_name |-> IF found THEN d.name ELSE target_class_name]

\* lines 776-786: the class a [constant] tag ends up pointing at, given the class
\* definitions searched, in order: each definition that holds the name, as a constant or
\* as a value of one of its enums, overwrites target_class_name
ConstantClass(search_class_defs, target_class_name, target_name) ==
    LET Holds(d) == \/ target_name \in d.constants
                    \/ \E en \in DOMAIN d.enums : target_name \in d.enums[en].values
        hits     == {i \in DOMAIN search_class_defs : Holds(search_class_defs[i])}
    IN  [found |-> hits # {},
         target_class_name |->
             IF hits = {} THEN target_class_name
             ELSE search_class_defs[CHOOSE i \in hits : \A j \in hits : j <= i].name]

\* the error of lines 714-764 for a member that its class does not hold
Unresolved(what, link_target) ==
    <<current_class \o ".xml: Unresolved " \o what \o " reference \"" \o link_target
        \o "\" in " \o context_name \o ".">>

\* MemberArm that takes a member of any kind for the member named
MemberArmAnyKind ==
    LET ts                == TagState
        link_target       == ts.arguments
        target            == parse_link_target(link_target)
        target_class_name == target[1]
        target_name       == target[2]
        bad   == IF Len(target) > 2
                 THEN <<current_class \o ".xml: Bad reference \"" \o link_target \o "\" in "
                          \o context_name \o ".">>
                 ELSE <<>>
        class_def == classes[target_class_name]
        bare      == Find(link_target, ".", 0) = -1
        search_class_defs == IF bare THEN <<class_def, classes["@GlobalScope"]>>
                             ELSE <<class_def>>
        constant  == ConstantClass(search_class_defs, target_class_name, target_name)
        Missing(members, what) ==
            IF target_name \notin class_def.methods \cup class_def.constructors
                                   \cup class_def.operators \cup class_def.properties
                                   \cup class_def.signals \cup class_def.annotations
                                   \cup class_def.theme_items
            THEN Unresolved(what, link_target) ELSE <<>>
        errs ==
            IF target_class_name \notin DOMAIN classes
            THEN <<current_class \o ".xml: Unresolved type reference \"" \o target_class_name
                     \o "\" in method reference \"" \o link_target \o "\" in "
                     \o context_name \o ".">>
            ELSE IF ts.name = "method" THEN Missing(class_def.methods, "method")
            ELSE IF ts.name = "constructor" THEN Missing(class_def.constructors, "constructor")
            ELSE IF ts.name = "operator" THEN Missing(class_def.operators, "operator")
            ELSE IF ts.name = "member" THEN Missing(class_def.properties, "member")
            ELSE IF ts.name = "signal" THEN Missing(class_def.signals, "signal")
            ELSE IF ts.name = "annotation" THEN Missing(class_def.annotations, "annotation")
            ELSE IF ts.name = "theme_item"
            THEN Missing(class_def.theme_items, "theme property")
            ELSE IF ~constant.found THEN Unresolved("constant", link_target)
            ELSE <<>>
        href == IF target_class_name \in DOMAIN classes /\ ts.name = "constant"
                THEN constant.target_class_name ELSE target_class_name
    IN  IF /\ target_class_name \in DOMAIN classes
           /\ ts.name = "constant"
           /\ bare
           /\ "@GlobalScope" \notin DOMAIN classes
        THEN [Same EXCEPT !.errs = bad, !.exit = "KeyError"]
        ELSE [Same EXCEPT !.errs = bad \o errs,
                          !.tag_text = "<xref href=\"" \o href \o "." \o target_name
                                           \o "\"></xref>"]

\* MemberArm, had it marked the methods whose names start with an underscore in the token
MemberArmMarksPrivate ==
    LET ts                == TagState
        link_target       == ts.arguments
        target            == parse_link_target(link_target)
        target_class_name == target[1]
        target_name       == target[2]
        bad   == IF Len(target) > 2
                 THEN <<current_class \o ".xml: Bad reference \"" \o link_target \o "\" in "
                          \o context_name \o ".">>
                 ELSE <<>>
        class_def == classes[target_class_name]
        bare      == Find(link_target, ".", 0) = -1
        search_class_defs == IF bare THEN <<class_def, classes["@GlobalScope"]>>
                             ELSE <<class_def>>
        constant  == ConstantClass(search_class_defs, target_class_name, target_name)
        Missing(members, what) ==
            IF target_name \notin members THEN Unresolved(what, link_target) ELSE <<>>
        errs ==
            IF target_class_name \notin DOMAIN classes
            THEN <<current_class \o ".xml: Unresolved type reference \"" \o target_class_name
                     \o "\" in method reference \"" \o link_target \o "\" in "
                     \o context_name \o ".">>
            ELSE IF ts.name = "method" THEN Missing(class_def.methods, "method")
            ELSE IF ts.name = "constructor" THEN Missing(class_def.constructors, "constructor")
            ELSE IF ts.name = "operator" THEN Missing(class_def.operators, "operator")
            ELSE IF ts.name = "member" THEN Missing(class_def.properties, "member")
            ELSE IF ts.name = "signal" THEN Missing(class_def.signals, "signal")
            ELSE IF ts.name = "annotation" THEN Missing(class_def.annotations, "annotation")
            ELSE IF ts.name = "theme_item"
            THEN Missing(class_def.theme_items, "theme property")
            ELSE IF ~constant.found THEN Unresolved("constant", link_target)
            ELSE <<>>
        href == IF target_class_name \in DOMAIN classes /\ ts.name = "constant"
                THEN constant.target_class_name ELSE target_class_name
    IN  IF /\ target_class_name \in DOMAIN classes
           /\ ts.name = "constant"
           /\ bare
           /\ "@GlobalScope" \notin DOMAIN classes
        THEN [Same EXCEPT !.errs = bad, !.exit = "KeyError"]
        ELSE [Same EXCEPT !.errs = bad \o errs,
                          !.tag_text =
                              IF ts.name = "method" /\ StartsWith(target_name, "_")
                              THEN "<xref href=\"" \o href \o "._private_" \o target_name
                                       \o "\"></xref>"
                              ELSE "<xref href=\"" \o href \o "." \o target_name
                                       \o "\"></xref>"]

\* lines 692-802: method, constructor, operator, member, signal, annotation, theme_item
\* and constant
MemberArm ==
    LET ts                == TagState
        link_target       == ts.arguments
        target            == parse_link_target(link_target)
        target_class_name == target[1]
        target_name       == target[2]
        bad   == IF Len(target) > 2
                 THEN <<current_class \o ".xml: Bad reference \"" \o link_target \o "\" in "
                          \o context_name \o ".">>
                 ELSE <<>>
        class_def == classes[target_class_name]
        bare      == Find(link_target, ".", 0) = -1
        search_class_defs == IF bare THEN <<class_def, classes["@GlobalScope"]>>
                             ELSE <<class_def>>
        constant  == ConstantClass(search_class_defs, target_class_name, target_name)
        Missing(members, what) ==
            IF target_name \notin members THEN Unresolved(what, link_target) ELSE <<>>
        errs ==
            IF target_class_name \notin DOMAIN classes
            THEN <<current_class \o ".xml: Unresolved type reference \"" \o target_class_name
                     \o "\" in method reference \"" \o link_target \o "\" in "
                     \o context_name \o ".">>
            ELSE IF ts.name = "method" THEN Missing(class_def.methods, "method")
            ELSE IF ts.name = "constructor" THEN Missing(class_def.constructors, "constructor")
            ELSE IF ts.name = "operator" THEN Missing(class_def.operators, "operator")
            ELSE IF ts.name = "member" THEN Missing(class_def.properties, "member")
            ELSE IF ts.name = "signal" THEN Missing(class_def.signals, "signal")
            ELSE IF ts.name = "annotation" THEN Missing(class_def.annotations, "annotation")
            ELSE IF ts.name = "theme_item"
            THEN Missing(class_def.theme_items, "theme property")
            ELSE IF ~constant.found THEN Unresolved("constant", link_target)
            ELSE <<>>
        href == IF target_class_name \in DOMAIN classes /\ ts.name = "constant"
                THEN constant.target_class_name ELSE target_class_name
    IN  IF /\ target_class_name \in DOMAIN classes
           /\ ts.name = "constant"
           /\ bare
           /\ "@GlobalScope" \notin DOMAIN classes
        THEN [Same EXCEPT !.errs = bad, !.exit = "KeyError"]
        ELSE [Same EXCEPT !.errs = bad \o errs,
                          !.tag_text = "<xref href=\"" \o href \o "." \o target_name
                                           \o "\"></xref>"]

\* ParamArm that does not look for the parameter among those of the context
ParamArmAnyName ==
    LET link_target == TagState.arguments
    IN  [Same EXCEPT
            !.tag_text = Literal \o link_target \o Literal,
            !.errs =
                IF context.definition_name \notin {"method", "signal", "annotation"}
                THEN <<current_class \o ".xml: Argument reference \"" \o link_target
                         \o "\" used outside of method, signal, or annotation context in "
                         \o context_name \o ".">>
                ELSE <<>>]

\* lines 807-830: [param]
ParamArm ==
    LET link_target == TagState.arguments
    IN  [Same EXCEPT
            !.tag_text = Literal \o link_target \o Literal,
            !.errs =
                IF context.definition_name \notin {"method", "signal", "annotation"}
                THEN <<current_class \o ".xml: Argument reference \"" \o link_target
                         \o "\" used outside of method, signal, or annotation context in "
                         \o context_name \o ".">>
                ELSE IF link_target \notin Range(context.parameters)
                THEN <<current_class \o ".xml: Unresolved argument reference \""
                         \o link_target \o "\" in " \o context_name \o ".">>
                ELSE <<>>]

\* lines 682-830: the cross-reference tags
CrossLinkArm ==
    LET ts == TagState
    IN  IF ts.arguments = ""
        THEN [Same EXCEPT !.tag_text = "",
                          !.errs = <<current_class \o ".xml: Empty cross-reference link \"["
                                       \o ts.raw \o "]\" in " \o context_name \o ".">>]
        ELSE IF ts.name \in {"method", "constructor", "operator", "member", "signal",
                             "annotation", "theme_item", "constant"}
        THEN MemberArm
        ELSE IF ts.name = "enum"
        THEN LET r == make_enum(ts.arguments, FALSE)
             IN  [Same EXCEPT !.tag_text = r.out, !.errs = r.errs]
        ELSE IF ts.name = "param" THEN ParamArm
        ELSE Same

CrossLinkTag ==
    /\ pc = "tag"
    /\ Branch = "crosslink"
    /\ Apply("crosslink", CrossLinkArm)

\* UrlArm without the break of line 852: the scan goes on past an unclosed [url=...]
UrlArmGoesOn ==
    LET ts         == TagState
        url_target == ts.arguments
        endurl_pos == Find(text, "[/url]", endq_pos + 1)
        link_title == Slice(text, endq_pos + 1, endurl_pos)
        post       == SliceFrom(text, endurl_pos + 6)
    IN  IF url_target = ""
        THEN [Same EXCEPT !.errs = <<current_class \o ".xml: Misformatted [url] tag \"["
                                       \o ts.raw \o "]\" in " \o context_name \o ".">>]
        ELSE IF endurl_pos = -1
        THEN [Same EXCEPT !.errs = <<current_class \o ".xml: Tag depth mismatch for "
                                       \o "[url]: no closing [/url] in " \o context_name
                                       \o ".">>]
        ELSE [Same EXCEPT
                 !.tag_text = make_link(url_target, link_title),
                 !.pre_text = IF /\ pre_text # ""
                                 /\ CharAt(pre_text, Len(pre_text) - 1)
                                        \notin MARKUP_ALLOWED_PRECEDENT
                              THEN pre_text \o "\\ " ELSE pre_text,
                 !.post_text = IF post # "" /\ CharAt(post, 0) \notin MARKUP_ALLOWED_SUBSEQUENT
                               THEN "\\ " \o post ELSE post,
                 !.escape = FALSE]

\* lines 834-866: [url=...]; with a closing [/url] the arm puts the text together itself
\* and goes on to the next iteration (line 866), past the escaping of lines 935-953
UrlArm ==
    LET ts         == TagState
        url_target == ts.arguments
        endurl_pos == Find(text, "[/url]", endq_pos + 1)
        link_title == Slice(text, endq_pos + 1, endurl_pos)
        post       == SliceFrom(text, endurl_pos + 6)
    IN  IF url_target = ""
        THEN [Same EXCEPT !.errs = <<current_class \o ".xml: Misformatted [url] tag \"["
                                       \o ts.raw \o "]\" in " \o context_name \o ".">>]
        ELSE IF endurl_pos = -1
        THEN [Same EXCEPT !.errs = <<current_class \o ".xml: Tag depth mismatch for "
                                       \o "[url]: no closing [/url] in " \o context_name
                                       \o ".">>,
                          !.exit = "break"]
        ELSE [Same EXCEPT
                 !.tag_text = make_link(url_target, link_title),
                 !.pre_text = IF /\ pre_text # ""
                                 /\ CharAt(pre_text, Len(pre_text) - 1)
                                        \notin MARKUP_ALLOWED_PRECEDENT
                              THEN pre_text \o "\\ " ELSE pre_text,
                 !.post_text = IF post # "" /\ CharAt(post, 0) \notin MARKUP_ALLOWED_SUBSEQUENT
                               THEN "\\ " \o post ELSE post,
                 !.escape = FALSE]

UrlTag ==
    /\ pc = "tag"
    /\ Branch = "url"
    /\ Apply("url", UrlArm)

RECURSIVE StripSpaces(_)
\* the loop of lines 872-873; reading post[0] of an empty text raises IndexError
StripSpaces(post) ==
    IF post = "" THEN [text |-> "", exit |-> "IndexError"]
    ELSE IF Head(post) = " " THEN StripSpaces(Tail(post))
    ELSE [text |-> post, exit |-> "next"]

\* lines 868-873: [br]
BrArm ==
    LET r == StripSpaces(post_text)
    IN  [Same EXCEPT !.tag_text = "\n\n", !.post_text = r.text, !.exit = r.exit]

BrTag ==
    /\ pc = "tag"
    /\ Branch = "br"
    /\ Apply("br", BrArm)

\* FormatArm in which [kbd] opens a code region, as [code] does
FormatArmKbdEntersCode ==
    LET ts    == TagState
        depth == IF ts.closing THEN tag_depth - 1 ELSE tag_depth + 1
    IN  IF ts.name = "center" THEN [Same EXCEPT !.tag_depth = depth, !.tag_text = ""]
        ELSE IF ts.name = "i" THEN [Same EXCEPT !.tag_depth = depth, !.tag_text = "*"]
        ELSE IF ts.name = "b" THEN [Same EXCEPT !.tag_depth = depth, !.tag_text = "**"]
        ELSE IF ts.name = "u" THEN [Same EXCEPT !.tag_depth = depth, !.tag_text = ""]
        ELSE IF ts.name = "lb" THEN [Same EXCEPT !.tag_text = "["]
        ELSE IF ts.name = "rb" THEN [Same EXCEPT !.tag_text = "]"]
        ELSE [Same EXCEPT !.tag_depth = depth,
                          !.inside_code = ~ts.closing,
                          !.inside_code_tag = "kbd",
                          !.tag_text = IF ts.closing THEN Backtick \o "</kbd>"
                                       ELSE "<kbd>" \o Backtick]

\* FormatArm with no "tag_depth -= 1" for a closing tag: every tag raises the depth
FormatArmNeverCloses ==
    LET ts    == TagState
        depth == tag_depth + 1
    IN  IF ts.name = "center" THEN [Same EXCEPT !.tag_depth = depth, !.tag_text = ""]
        ELSE IF ts.name = "i" THEN [Same EXCEPT !.tag_depth = depth, !.tag_text = "*"]
        ELSE IF ts.name = "b" THEN [Same EXCEPT !.tag_depth = depth, !.tag_text = "**"]
        ELSE IF ts.name = "u" THEN [Same EXCEPT !.tag_depth = depth, !.tag_text = ""]
        ELSE IF ts.name = "lb" THEN [Same EXCEPT !.tag_text = "["]
        ELSE IF ts.name = "rb" THEN [Same EXCEPT !.tag_text = "]"]
        ELSE [Same EXCEPT !.tag_depth = depth,
                          !.tag_text = IF ts.closing THEN Backtick \o "</kbd>"
                                       ELSE "<kbd>" \o Backtick]

\* lines 875-916: [center], [i], [b], [u], [lb], [rb], [kbd] and their closing forms
FormatArm ==
    LET ts    == TagState
        depth == IF ts.closing THEN tag_depth - 1 ELSE tag_depth + 1
    IN  IF ts.name = "center" THEN [Same EXCEPT !.tag_depth = depth, !.tag_text = ""]
        ELSE IF ts.name = "i" THEN [Same EXCEPT !.tag_depth = depth, !.tag_text = "*"]
        ELSE IF ts.name = "b" THEN [Same EXCEPT !.tag_depth = depth, !.tag_text = "**"]
        ELSE IF ts.name = "u" THEN [Same EXCEPT !.tag_depth = depth, !.tag_text = ""]
        ELSE IF ts.name = "lb" THEN [Same EXCEPT !.tag_text = "["]
        ELSE IF ts.name = "rb" THEN [Same EXCEPT !.tag_text = "]"]
        ELSE [Same EXCEPT !.tag_depth = depth,
                          !.tag_text = IF ts.closing THEN Backtick \o "</kbd>"
                                       ELSE "<kbd>" \o Backtick]

FormatTag ==
    /\ pc = "tag"
    /\ Branch = "format"
    /\ Apply("format", FormatArm)

\* the last arm, had it written an unknown opening tag back in brackets as it does a
\* closing one
InvalidArmBrackets ==
    LET ts == TagState
    IN  [Same EXCEPT !.tag_text = "[" \o tag_text \o "]",
                     !.errs = <<current_class \o ".xml: Unrecognized "
                                  \o (IF ts.closing THEN "closing" ELSE "opening")
                                  \o " tag \"[" \o ts.raw \o "]\" in " \o context_name \o ".">>]

\* lines 919-933: any other tag
InvalidArm ==
    LET ts == TagState
    IN  IF ts.closing
        THEN [Same EXCEPT !.tag_text = "[" \o tag_text \o "]",
                          !.errs = <<current_class \o ".xml: Unrecognized closing tag \"["
                                       \o ts.raw \o "]\" in " \o context_name \o ".">>]
        ELSE [Same EXCEPT !.tag_text = Literal \o tag_text \o Literal,
                          !.errs = <<current_class \o ".xml: Unrecognized opening tag \"["
                                       \o ts.raw \o "]\" in " \o context_name \o ".">>]

InvalidTag ==
    /\ pc = "tag"
    /\ Branch = "invalid"
    /\ Apply("invalid", InvalidArm)

\* lines 958-964: after the loop, the check of the depth and the return
Return ==
    /\ pc = "end"
    /\ PrintErrors(IF tag_depth > 0
                   THEN <<current_class \o ".xml: Tag depth mismatch: too many "
                            \o "(or too few) open/close tags in " \o context_name \o ".">>
                   ELSE <<>>)
    /\ result' = text
    /\ pc' = "done"
    /\ UNCHANGED <<Frame, TagLocals, TagParts, num_warnings, warnings, parity_hits, text,
                   pos, raised, taken>>

---------------------------------------------------------------------------
(* The calls that are checked: the symbol tables, the contexts, the texts. *)

\* a ClassDef: its name and the names it holds, by kind
ClassDef(name, methods, constants, enums) ==
    [name |-> name, inherits |-> "", methods |-> methods, constructors |-> {},
     operators |-> {}, properties |-> {}, signals |-> {}, annotations |-> {},
     theme_items |-> {}, constants |-> constants, enums |-> enums]

\* an EnumDef of the given values
EnumDef(values) == [values |-> values, is_bitfield |-> FALSE]

NoEnums == <<>>

\* state.classes with a class A, a class Node and @GlobalScope; ac: A holds constant FOO,
\* ae: A holds an enum with the value FOO, gc and ge: the same for @GlobalScope
Classes(ac, ae, gc, ge) ==
    "A" :> ClassDef("A", {"foo"}, IF ac THEN {"FOO"} ELSE {},
                    IF ae THEN "E" :> EnumDef({"FOO"}) ELSE NoEnums)
    @@ "Node" :> ClassDef("Node", {}, {}, NoEnums)
    @@ "@GlobalScope" :> ClassDef("@GlobalScope", {}, IF gc THEN {"FOO"} ELSE {},
                                  IF ge THEN "G" :> EnumDef({"FOO"}) ELSE NoEnums)

\* the table of the example of the specification: A without FOO, @GlobalScope with it
Plain == Classes(FALSE, FALSE, TRUE, FALSE)

\* a MethodDef as context: the description of method foo(p)
MethodContext == [definition_name |-> "method", name |-> "foo", parameters |-> <<"p">>]

RECURSIVE Texts(_, _)
\* the texts made of at most n of the given pieces
Texts(pieces, n) ==
    IF n = 0 THEN {""}
    ELSE LET shorter == Texts(pieces, n - 1)
         IN  shorter \cup {t \o p : t \in shorter, p \in pieces}

Call(t, ctx, cls, cur) == [text |-> t, context |-> ctx, classes |-> cls, current_class |-> cur]

MaxTags == 2

AnyPieces == {"x", " ", "*", "_", "\\", "\n", "\t", "[", "]",
              "[b]", "[/b]", "[i]", "[/i]", "[u]", "[/u]", "[center]", "[/center]",
              "[kbd]", "[/kbd]", "[lb]", "[rb]", "[br]",
              "[code]", "[code skip-lint]", "[/code]",
              "[codeblock]", "[/codeblock]", "[gdscript]", "[/gdscript]",
              "[csharp]", "[/csharp]", "[codeblocks]", "[/codeblocks]",
              "[url=u]", "[url]", "[/url]",
              "[A]", "[Node]", "[foo]", "[/foo]",
              "[method foo]", "[method Missing.thing]", "[constant FOO]",
              "[constant A.FOO]", "[enum E]", "[param p]", "[param]"}

\* any two pieces of the whole vocabulary, in a class description and in a method's
AnyCalls ==
    {Call(t, ctx, Plain, "A") : t \in Texts(AnyPieces, MaxTags), ctx \in {NoContext, MethodContext}}

MaxDepthTags == 4

DepthPieces == {"x", "[b]", "[/b]", "[code]", "[/code]", "[codeblock]", "[/codeblock]",
                "[url=u]", "[/url]"}

\* descriptions of opening and closing tags that change the nesting depth
DepthCalls == {Call(t, NoContext, Plain, "A") : t \in Texts(DepthPieces, MaxDepthTags)}

MaxBlockPieces == 4

BlockPieces == {"x", "\n", "\t", "[codeblock]", "[/codeblock]"}

\* descriptions of lines, indentation and code blocks
BlockCalls == {Call(t, NoContext, Plain, "A") : t \in Texts(BlockPieces, MaxBlockPieces)}

ConstantTexts == {"[constant FOO]", "[constant A.FOO]", "[constant Node.FOO]",
                  "[constant @GlobalScope.FOO]", "[constant BAR]",
                  "[constant FOO] or [constant A.FOO]"}

\* constant references under every placement of FOO, in the descriptions of A and of Node
ConstantCalls ==
    {Call(t, NoContext, Classes(ac, ae, gc, ge), cur) :
        t \in ConstantTexts, ac \in BOOLEAN, ae \in BOOLEAN, gc \in BOOLEAN, ge \in BOOLEAN,
        cur \in {"A", "Node"}}

LinkTargets == {"", "foo", "bar", "A.foo", "A.bar", "Node.foo", "Missing.thing", "p", "E",
                "A.E", "FOO", "a.b.c", ".", "A.", ".foo"}

\* one cross-reference of every kind, alone and inside a sentence
CrossLinkCalls ==
    {Call(a \o "[" \o kind \o sp \o target \o "]" \o b, ctx, Classes(FALSE, TRUE, TRUE, FALSE), "A") :
        kind \in RESERVED_CROSSLINK_TAGS, sp \in {" "}, target \in LinkTargets,
        a \in {"", "See "}, b \in {"", " here."}, ctx \in {NoContext, MethodContext}}

MaxClassPieces == 3

ClassPieces == {"See ", " for details.", "[Node]", "[A]", "*", "_", "[code]", "[/code]"}

\* descriptions that name classes, in the descriptions of A and of Node
ClassCalls ==
    {Call(t, NoContext, Plain, cur) :
        t \in Texts(ClassPieces, MaxClassPieces) \cup {"[A] is not [code][A][/code]"},
        cur \in {"A", "Node"}}

\* a table in which A holds a method named like the parameter of MethodContext, and Node
\* holds a property
CodeTable == [Plain EXCEPT !["A"].methods = {"foo", "p"}, !["Node"].properties = {"bar"}]

CodeStrings == {"", "zzz", "foo", "foo()", "p", "Node", "A", "bar", "A.foo", "Node.bar",
                "FOO", "a.b.c", "[method Missing.thing][/b]"}

\* the tags that open and close a code region, with lint and without
CodeRegions == {<<"[code]", "[/code]">>, <<"[code skip-lint]", "[/code]">>,
                <<"[codeblock]", "[/codeblock]">>,
                <<"[codeblock skip-lint]", "[/codeblock]">>}

\* one code string in a code region, alone, inside a sentence and before a second region
CodeCalls ==
    {Call(a \o region[1] \o x \o region[2] \o b, ctx, CodeTable, cur) :
        region \in CodeRegions, x \in CodeStrings,
        a \in {"", "See "}, b \in {"", " here.", "[code][/i][/code]"},
        ctx \in {NoContext, MethodContext}, cur \in {"A", "Node"}}

GdscriptSample == "[gdscript][/gdscript]"

CsharpSample == "[csharp][/csharp]"

\* a container around the samples s
Container(s) == "[codeblocks]" \o s \o "[/codeblocks]"

\* what stands between [codeblocks] and [/codeblocks]: samples in one language, in both,
\* in none, formatting tags, a [codeblock], a second [codeblocks]
Samples == {"", GdscriptSample, CsharpSample, GdscriptSample \o CsharpSample,
            CsharpSample \o GdscriptSample, "[b][kbd]x[/kbd][/b]",
            "[codeblock][/codeblock]", GdscriptSample \o "[codeblocks]" \o CsharpSample}

\* descriptions of one container, alone, after text or after a sample that stands outside,
\* and of two containers in a row
ContainerCalls ==
    {Call(t, NoContext, Plain, "A") :
        t \in {a \o Container(s) : a \in {"", "x"}, s \in Samples}
            \cup {a \o Container(s) : a \in {GdscriptSample, CsharpSample},
                                       s \in {"", GdscriptSample, CsharpSample}}
            \cup {Container(s1) \o Container(s2) :
                     s1 \in {"", GdscriptSample, CsharpSample},
                     s2 \in {"", GdscriptSample, CsharpSample}}}

\* the kinds of member a cross-reference names, each with the name that the table below
\* gives to class A under that kind
MemberKinds == [method |-> "m", constructor |-> "c", operator |-> "o", member |-> "v",
                signal |-> "s", annotation |-> "n", theme_item |-> "t"]

\* state.classes where A holds one member of each kind, each under a name of its own, and
\* Node holds a signal m and a method v
MemberTable ==
    [Plain EXCEPT !["A"].methods = {"m"}, !["A"].constructors = {"c"},
                  !["A"].operators = {"o"}, !["A"].properties = {"v"},
                  !["A"].signals = {"s"}, !["A"].annotations = {"n"},
                  !["A"].theme_items = {"t"},
                  !["Node"].signals = {"m"}, !["Node"].methods = {"v"}]

MemberTargets == Range(MemberKinds) \cup {"A.m", "A.v", "Node.m", "Node.v", "Missing.m",
                                           "zzz", "A.m.v"}

\* one reference to a member, of every kind, alone and before a reference to a member
\* that A holds under another kind
MemberCalls ==
    {Call("[" \o kind \o " " \o target \o "]" \o b, NoContext, MemberTable, cur) :
        kind \in DOMAIN MemberKinds, target \in MemberTargets,
        b \in {"", " and [member m]"}, cur \in {"A", "Node"}}

\* a SignalDef as context: the description of signal changed(p, q)
SignalContext == [definition_name |-> "signal", name |-> "changed", parameters |-> <<"p", "q">>]

\* an AnnotationDef as context: the description of an annotation without parameters
AnnotationContext == [definition_name |-> "annotation", name |-> "@tool", parameters |-> <<>>]

\* a ConstantDef as context: a definition that is none of the three, and has no parameters
ConstantContext == [definition_name |-> "constant", name |-> "FOO", parameters |-> <<>>]

\* references to parameters in the descriptions of definitions of every kind
ParamCalls ==
    {Call(a \o "[param " \o P \o "]" \o b, ctx, Plain, "A") :
        P \in {"p", "q", "zzz", "foo", "p q"}, a \in {"", "See "},
        b \in {"", " and [param zzz]"},
        ctx \in {NoContext, MethodContext, SignalContext, AnnotationContext, ConstantContext}}

\* state.classes with enums: E in A, in Node and in @GlobalScope, AE in A only, N in Node
\* only, G and Variant.Type in @GlobalScope only, and a class Variant with an enum Own
EnumTable ==
    [Plain EXCEPT !["A"].enums = "E" :> EnumDef({"FOO"}) @@ "AE" :> EnumDef({"X"}),
                  !["Node"].enums = "E" :> EnumDef({"BAR"}) @@ "N" :> EnumDef({"X"}),
                  !["@GlobalScope"].enums = "E" :> EnumDef({"BAZ"}) @@ "G" :> EnumDef({"X"})
                                                @@ "Variant.Type" :> EnumDef({"X"})]
    @@ "Variant" :> ClassDef("Variant", {}, {}, "Own" :> EnumDef({"X"}))

EnumTargets == {"E", "AE", "N", "G", "zzz", "Axis", "A.E", "A.G", "Node.N", "Node.AE",
                "@GlobalScope.G", "Missing.E", "Vector3.Axis", "Variant.Type", "Variant.Own",
                "Variant.zzz", "A.B.E"}

\* references to enums, alone and before two references that do not resolve
EnumCalls ==
    {Call("[enum " \o T \o "]" \o b, NoContext, EnumTable, cur) :
        T \in EnumTargets, b \in {"", " and [enum Node.G] and [enum Vector3.Axis]"},
        cur \in {"A", "Node"}}

\* what stands in the brackets of a tag that no arm but the last one takes: unknown
\* names, with arguments, in the wrong case, longer than a known name, none at all
UnknownTags == {"foo bar", "B", "Code", "brx", "color=red", "A b", "", "/foo bar", "/B", "/",
                "color=a b ", "a =b", " x", "=", "/=x", "/b  c=d"}

\* one unknown tag, alone, after text or an open [b], before text or a closing tag
UnknownCalls ==
    {Call(a \o "[" \o t \o "]" \o b, ctx, Plain, "A") :
        t \in UnknownTags, a \in {"", "x", "[b]"}, b \in {"", "*x", "[/b]"},
        ctx \in {NoContext, MethodContext}}

MaxEscapePieces == 3

\* the characters that the escaping looks for, and two that it leaves alone
EscapePieces == {"\\", "*", "_", "x", " "}

\* what may stand after the characters to escape: nothing, a tag, a tag and a "*"
EscapeEnds == {"", "[b]", "[b]*"}

\* the tags after which the text is escaped or left alone: a formatting tag, a link, an
\* unknown tag, a class, a code region that is closed and one that is open
EscapeTags == {"[b]", "[url=u]t[/url]", "[url]", "[foo]", "[A]", "[code]x[/code]",
               "[code skip-lint]"}

\* a description with line breaks, a link that is followed by characters to escape, and
\* two formatting tags
LongSample == "a\n\tb*[url=u]t[/url]*_ [b]c_ [i]"

\* descriptions made of the characters that are escaped: before the first tag, or with no
\* tag at all, and between a tag and the next one, or after the last one
EscapeCalls ==
    {Call(t, NoContext, Plain, "A") :
        t \in {a \o b : a \in Texts(EscapePieces, MaxEscapePieces), b \in EscapeEnds}
            \cup {tag \o a \o b : tag \in EscapeTags,
                                   a \in Texts(EscapePieces, MaxEscapePieces - 1),
                                   b \in {"", "[i]", "[i]*_ "}}
            \cup {LongSample}}

MaxBodyPieces == 4

\* the opening tags of a block: its three names, and one with an argument
BlockOpenings == {"codeblock", "gdscript", "csharp", "codeblock lang=text"}

\* what leads to the block: a line break, and one or two levels of indentation
BlockIndents == {"\n", "x\n\t", "\n\t\t"}

\* what may follow the body: the closing tag, the closing tag and a further line, two
\* closing tags, and no closing tag
BlockEnds(name) ==
    {"[/" \o name \o "]", "[/" \o name \o "]\n\tb", "[/" \o name \o "]x[/" \o name \o "]", ""}

\* the name of an opening tag: what stands before its argument
BlockName(opening) == Split(opening, " ")[1]

\* a block with a line of two tabs and a line of five
DeepSample == "\n\t[codeblock]\n\t\tx\n\t\t\t\t\ty\n\t[/codeblock]"

\* an opening tag and what follows the body: the block is closed by its own tag or by
\* the tag of another block
BlockShapes ==
    UNION {{<<opening, ending>> : ending \in BlockEnds(BlockName(opening)) \cup {"[/csharp]"}} :
           opening \in BlockOpenings}

\* blocks that follow a line break, with bodies of lines at every indentation
BodyCalls ==
    {Call(t, NoContext, Plain, "A") :
        t \in {indent \o "[" \o shape[1] \o "]" \o body \o shape[2] :
                    indent \in BlockIndents, body \in Texts({"\n", "\t", "x"}, MaxBodyPieces),
                    shape \in BlockShapes}
                \cup {DeepSample}}

\* state.classes where A holds a method foo and a method _foo, and Node a method _bar
PrivateTable == [Plain EXCEPT !["A"].methods = {"foo", "_foo"}, !["Node"].methods = {"_bar"}]

PrivateTargets == {"foo", "_foo", "A.foo", "A._foo", "Node._bar", "_bar", "_missing",
                   "Missing._x", "_"}

\* references to methods whose names start with an underscore and to methods whose names
\* do not, alone, inside a sentence and one after the other
PrivateCalls ==
    {Call("[method " \o target \o "]" \o b, ctx, PrivateTable, cur) :
        target \in PrivateTargets, b \in {"", " here.", " and [method foo]"},
        ctx \in {NoContext, MethodContext}, cur \in {"A", "Node"}}

\* what may follow a [code] tag that nothing closes: text, tags of every kind, a closing
\* tag of another region, a second [code], a closing code tag that holds a space, and a
\* "[/code]" that is the end of another tag
UnclosedRests == {"", "x", "x[i][/b]", "[/b]", "[foo]*", "x[/codeblock]", "[code]",
                  "x[/code ]", "x[b[/code]"}

\* a [code] tag with no [/code] after it, alone, after text and inside an open [b]
UnclosedCalls ==
    {Call(a \o "[code]" \o b, ctx, Plain, "A") :
        a \in {"", "x", "[b]", "a[b]_ "}, b \in UnclosedRests,
        ctx \in {NoContext, MethodContext}}

\* the calls checked, family by family
Inputs == <<AnyCalls, DepthCalls, BlockCalls, ConstantCalls, CrossLinkCalls, ClassCalls,
            CodeCalls, ContainerCalls, MemberCalls, ParamCalls, EnumCalls, UnknownCalls,
            EscapeCalls, BodyCalls, PrivateCalls, UnclosedCalls>>

NoTag == [branch |-> "", raw |-> "", out |-> "", post |-> "", code |-> FALSE,
          errs |-> <<>>, warns |-> <<>>, hits |-> 0, exit |-> ""]

\* what the latest iteration of the tag loop did
last == IF taken = <<>> THEN NoTag ELSE taken[Len(taken)]

\* no call was made before this one
NoCall == [made |-> FALSE, text |-> "", result |-> "", raised |-> "", errors |-> <<>>]

\* the state when format_text_block is entered with the arguments inp
Start(inp) ==
    /\ input = inp
    /\ classes = inp.classes
    /\ current_class = inp.current_class
    /\ context = inp.context
    /\ num_errors = 0
    /\ num_warnings = 0
    /\ errors = <<>>
    /\ warnings = <<>>
    /\ parity_hits = 0
    /\ pc = "linebreaks"
    /\ text = inp.text
    /\ pos = 0
    /\ endq_pos = 0
    /\ pre_text = ""
    /\ post_text = ""
    /\ tag_text = ""
    /\ tag_depth = 0
    /\ inside_code = FALSE
    /\ inside_code_tag = ""
    /\ inside_code_tabs = FALSE
    /\ ignore_code_warnings = FALSE
    /\ has_codeblocks_gdscript = FALSE
    /\ has_codeblocks_csharp = FALSE
    /\ result = ""
    /\ raised = ""
    /\ taken = <<>>
    /\ earlier = NoCall
    /\ xml_data = <<>>
    /\ todo = <<>>
    /\ class_files = <<>>
    /\ written = <<>>
    /\ inherits = ""
    /\ all_inherits = <<>>

Init == \E i \in DOMAIN Inputs : \E inp \in Inputs[i] : Start(inp)

\* the text t with the [code] at index p given the argument skip-lint
SkipLintAt(t, p) == Slice(t, 0, p) \o "[code skip-lint]" \o SliceFrom(t, p + 6)

\* A call has ended, and the same description is transpiled anew, on a fresh state, with
\* skip-lint on one of its [code] tags; what the first call returned is kept.
CallTwin ==
    /\ pc \in {"done", "raised"}
    /\ ~earlier.made
    /\ Find(input.text, "skip-lint", 0) = -1
    /\ \E p \in 0..(Len(input.text) - 6) :
          /\ Slice(input.text, p, p + 6) = "[code]"
          /\ input' = [input EXCEPT !.text = SkipLintAt(input.text, p)]
          /\ text' = SkipLintAt(input.text, p)
    /\ earlier' = [made |-> TRUE, text |-> input.text, result |-> result, raised |-> raised,
                   errors |-> errors]
    /\ num_errors' = 0
    /\ num_warnings' = 0
    /\ errors' = <<>>
    /\ warnings' = <<>>
    /\ parity_hits' = 0
    /\ pc' = "linebreaks"
    /\ pos' = 0
    /\ endq_pos' = 0
    /\ pre_text' = ""
    /\ post_text' = ""
    /\ tag_text' = ""
    /\ tag_depth' = 0
    /\ inside_code' = FALSE
    /\ inside_code_tag' = ""
    /\ inside_code_tabs' = FALSE
    /\ ignore_code_warnings' = FALSE
    /\ has_codeblocks_gdscript' = FALSE
    /\ has_codeblocks_csharp' = FALSE
    /\ result' = ""
    /\ raised' = ""
    /\ taken' = <<>>
    /\ UNCHANGED <<classes, current_class, context, xml_data, todo, class_files, written,
                   inherits, all_inherits>>

Next ==
    \/ LineBreakCodeblock
    \/ LineBreakParagraph
    \/ LineBreaksDone
    \/ NextTag
    \/ ClassTag
    \/ InsideCodeTag
    \/ CodeblocksTag
    \/ CodeblockTag
    \/ CodeTag
    \/ CrossLinkTag
    \/ UrlTag
    \/ BrTag
    \/ FormatTag
    \/ InvalidTag
    \/ TagsDone
    \/ Return
    \/ CallTwin

Spec == Init /\ [][Next]_vars

---------------------------------------------------------------------------
(* gdxml2yml.py.  _get_class_state_from_docs lists the XML files of the    *)
(* input path, reads them, and has State.parse_class add one class for     *)
(* each; main then writes a file for every class and enum, and the table   *)
(* of contents.  One step is one iteration of one of the three loops, or   *)
(* what stands between two loops.  Of what the class files hold, only the  *)
(* brief description is modelled, as one reference to a class; what the    *)
(* enum files hold is not modelled.                                        *)

\* a file under the input path: its path from there, whether it parses as XML, the name
\* attribute of its root, whether State.parse_class raises on it, the enums it declares
Entry(file, wellformed, name, raises, enums) ==
    [file |-> file, wellformed |-> wellformed, name |-> name, raises |-> raises,
     enums |-> enums]

\* two classes that parse, one of them with an enum; a class on which parse_class raises;
\* a second file, in a subdirectory, for class A; a file that is no XML; a file that is
\* not .xml
DirEntries ==
    {Entry("A.xml", TRUE, "A", FALSE, {"E"}), Entry("C.xml", TRUE, "C", FALSE, {}),
     Entry("B.xml", TRUE, "B", TRUE, {}), Entry("sub/A.xml", TRUE, "A", FALSE, {}),
     Entry("bad.xml", FALSE, "", FALSE, {}), Entry("notes.txt", FALSE, "", FALSE, {})}

MaxFiles == 3

RECURSIVE Listings(_)
\* the directories of at most n files, each as os.walk lists it
Listings(n) ==
    IF n = 0 THEN {<<>>}
    ELSE LET shorter == Listings(n - 1)
         IN  shorter \cup {Append(l, e) : l \in shorter, e \in DirEntries}

\* the arguments of main: the listing of args.path, and args.filter
Runs == {[path |-> l, filter |-> f] :
            l \in {l \in Listings(MaxFiles) : \A i, j \in DOMAIN l : l[i] = l[j] => i = j},
            f \in {"", "sub/"}}

\* lines 453-466, had the subdirectories been left out
get_file_list_flat(path) ==
    SelectSeq(path, LAMBDA e : EndsWith(e.file, ".xml") /\ Find(e.file, "/", 0) = -1)

\* lines 453-466: the files of the path whose names end in .xml
get_file_list(path) == SelectSeq(path, LAMBDA e : EndsWith(e.file, ".xml"))

\* line 476, classes[name] = (doc, cur_file): a name already read keeps its place and
\* takes the new document
Put(data, e) ==
    IF \E i \in DOMAIN data : data[i].name = e.name
    THEN [i \in DOMAIN data |-> IF data[i].name = e.name THEN e ELSE data[i]]
    ELSE Append(data, e)

\* make_rst.State.parse_class, when it returns: the class stands in state.classes under
\* the name of the document, with its enums and the path of its file
ParsedClass(e) ==
    ClassDef(e.name, {}, {}, [n \in e.enums |-> EnumDef({})]) @@ [filepath |-> e.file]

\* make_rst.State.sort_classes: the names of the model in the order of sorted()
NameOrder == <<"A", "B", "C">>

sort_classes(cls) == SelectSeq(NameOrder, LAMBDA n : n \in DOMAIN cls)

\* str.lower, for the letters of the names of the model
LowerCase == "A" :> "a" @@ "B" :> "b" @@ "C" :> "c" @@ "E" :> "e"

RECURSIVE lower(_)
lower(s) ==
    IF s = "" THEN ""
    ELSE (IF SubSeq(s, 1, 1) \in DOMAIN LowerCase THEN LowerCase[SubSeq(s, 1, 1)]
          ELSE SubSeq(s, 1, 1)) \o lower(SubSeq(s, 2, Len(s)))

RECURSIVE InOrder(_)
\* the names of a set one after another, in some order, as a dict hands out its keys
InOrder(S) ==
    IF S = {} THEN <<>>
    ELSE LET n == CHOOSE n \in S : TRUE
         IN  <<n>> \o InOrder(S \ {n})

\* lines 76-89: the file of a class
make_yml_class(class_def) ==
    [kind |-> "class", file |-> "class_" \o lower(class_def.name) \o ".yml"]

\* lines 60-73: the file of an enum
make_yml_enum(class_name, enum_name) ==
    [kind |-> "enum", file |-> "enum_" \o class_name \o "_" \o lower(enum_name) \o ".yml"]

\* lines 45-57: the table of contents
make_yml_toc(entries) == [kind |-> "toc", file |-> "toc.yml", items |-> entries]

\* the locals of format_text_block and of _get_class_inheritance, which none of this
\* touches
TextLocals == <<context, parity_hits, num_warnings, warnings, text, pos, TagParts,
                TagLocals, result, taken, earlier, inherits, all_inherits>>

\* main is called: nothing is read yet, State() is empty, nothing is written
BuildInit ==
    /\ input \in Runs
    /\ classes = <<>>
    /\ current_class = ""
    /\ context = NoContext
    /\ num_errors = 0
    /\ num_warnings = 0
    /\ errors = <<>>
    /\ warnings = <<>>
    /\ parity_hits = 0
    /\ pc = "read"
    /\ text = ""
    /\ pos = 0
    /\ endq_pos = 0
    /\ pre_text = ""
    /\ post_text = ""
    /\ tag_text = ""
    /\ tag_depth = 0
    /\ inside_code = FALSE
    /\ inside_code_tag = ""
    /\ inside_code_tabs = FALSE
    /\ ignore_code_warnings = FALSE
    /\ has_codeblocks_gdscript = FALSE
    /\ has_codeblocks_csharp = FALSE
    /\ result = ""
    /\ raised = ""
    /\ taken = <<>>
    /\ earlier = NoCall
    /\ xml_data = <<>>
    /\ todo = get_file_list(get_file_list(input.path))
    /\ class_files = <<>>
    /\ written = <<>>
    /\ inherits = ""
    /\ all_inherits = <<>>

\* lines 471-476: one file is parsed and kept under the name of its root; a file that is
\* no XML makes ET.parse raise, and nothing catches it
ReadXml ==
    /\ pc = "read"
    /\ todo # <<>>
    /\ IF Head(todo).wellformed
       THEN /\ xml_data' = Put(xml_data, Head(todo))
            /\ todo' = Tail(todo)
            /\ UNCHANGED <<pc, raised>>
       ELSE /\ pc' = "raised"
            /\ raised' = "ParseError"
            /\ UNCHANGED <<xml_data, todo>>
    /\ UNCHANGED <<input, classes, current_class, num_errors, errors, class_files, written,
                   TextLocals>>

\* lines 478 and 483-484: all files are read; State() is made and the loop over the
\* documents starts
ReadDone ==
    /\ pc = "read"
    /\ todo = <<>>
    /\ pc' = "parse"
    /\ todo' = xml_data
    /\ UNCHANGED <<input, classes, current_class, num_errors, errors, xml_data, class_files,
                   written, raised, TextLocals>>

\* lines 484-488 without the try: what parse_class raises ends the run
ParseClassStops ==
    /\ pc = "parse"
    /\ todo # <<>>
    /\ LET e == Head(todo)
       IN  IF e.raises
           THEN /\ pc' = "raised"
                /\ raised' = "Exception"
                /\ UNCHANGED <<classes, num_errors, errors, todo>>
           ELSE /\ classes' = (e.name :> ParsedClass(e)) @@ classes
                /\ todo' = Tail(todo)
                /\ UNCHANGED <<num_errors, errors, pc, raised>>
    /\ UNCHANGED <<input, current_class, xml_data, class_files, written, TextLocals>>

\* lines 484-488: one document is handed to parse_class; whatever it raises is caught and
\* printed as one error. What parse_class had added when it raised is not known here: the
\* class is in the state or it is not.
ParseClass ==
    /\ pc = "parse"
    /\ todo # <<>>
    /\ LET e == Head(todo)
       IN  /\ \E added \in (IF e.raises THEN BOOLEAN ELSE {TRUE}) :
                 classes' = IF added THEN (e.name :> ParsedClass(e)) @@ classes
                            ELSE classes
           /\ PrintErrors(IF e.raises
                          THEN <<e.name \o ".xml: Exception while parsing class: boom">>
                          ELSE <<>>)
    /\ todo' = Tail(todo)
    /\ UNCHANGED <<input, current_class, xml_data, class_files, written, pc, raised,
                   TextLocals>>

\* the brief description of the class of each file: a reference to a class, or nothing
brief_description ==
    "A.xml" :> "[B]" @@ "sub/A.xml" :> "[C]" @@ "C.xml" :> "[A]" @@ "B.xml" :> ""

\* gdxml2yml.py lines 257-261 and gdxml_helpers.py lines 443-448, 929-933: what
\* format_text_block prints for the brief description of class_def, a class of the state
\* being referred to without an error and any other name being an unrecognized tag
\* (the context is the class, a definition that make_rst names "class")
SummaryErrors(class_def, printed_for) ==
    LET d   == brief_description[class_def.filepath]
        tag == Slice(d, 1, Len(d) - 1)
    IN  IF d = "" \/ tag \in DOMAIN classes THEN <<>>
        ELSE <<printed_for \o ".xml: Unrecognized opening tag \"[" \o tag \o "]\" in class \""
                  \o class_def.name \o "\" description.">>

\* args.filter leaves the class out (line 511)
FilteredOut(class_def) ==
    input.filter # "" /\ Find(class_def.filepath, input.filter, 0) = -1

\* ParseDone, had the classes the filter leaves out been taken out of the state as well
ParseDoneFiltered ==
    /\ pc = "parse"
    /\ todo = <<>>
    /\ pc' = "classes"
    /\ classes' = [n \in {n \in DOMAIN classes : ~FilteredOut(classes[n])} |-> classes[n]]
    /\ todo' = sort_classes(classes')
    /\ UNCHANGED <<input, current_class, num_errors, errors, xml_data, class_files,
                   written, raised, TextLocals>>

\* lines 489 and 503-510: the state is returned to main, which sorts the classes and
\* starts the loop over them
ParseDone ==
    /\ pc = "parse"
    /\ todo = <<>>
    /\ pc' = "classes"
    /\ todo' = sort_classes(classes)
    /\ UNCHANGED <<input, classes, current_class, num_errors, errors, xml_data, class_files,
                   written, raised, TextLocals>>

\* lines 511-530: one class: unless the filter leaves it out, it becomes the current
\* class, its file is written, its brief description being transpiled for it, then the
\* files of its enums, and its entry is added to class_files
WriteClass ==
    /\ pc = "classes"
    /\ todo # <<>>
    /\ LET class_name == Head(todo)
           class_def  == classes[class_name]
           enum_names == InOrder(DOMAIN class_def.enums)
           enum_toc_yml == [i \in DOMAIN enum_names |->
                               [uid |-> class_name \o "." \o enum_names[i],
                                name |-> enum_names[i]]]
           toc_yml    == [uid |-> class_name, name |-> lower(class_name)]
       IN  IF input.filter # "" /\ Find(class_def.filepath, input.filter, 0) = -1
           THEN UNCHANGED <<current_class, class_files, written, num_errors, errors>>
           ELSE /\ current_class' = class_name
                /\ PrintErrors(SummaryErrors(class_def, current_class'))
                /\ written' = Append(written, make_yml_class(class_def))
                                 \o [i \in DOMAIN enum_names |->
                                        make_yml_enum(class_name, enum_names[i])]
                /\ class_files' = Append(class_files,
                                         IF enum_toc_yml # <<>>
                                         THEN toc_yml @@ [items |-> enum_toc_yml]
                                         ELSE toc_yml)
    /\ todo' = Tail(todo)
    /\ UNCHANGED <<input, classes, xml_data, pc, raised, TextLocals>>

\* line 532, had the table of contents been written only when there is a class
WriteTocIfAny ==
    /\ pc = "classes"
    /\ todo = <<>>
    /\ written' = IF class_files = <<>> THEN written
                  ELSE Append(written, make_yml_toc(class_files))
    /\ pc' = "done"
    /\ UNCHANGED <<input, classes, current_class, num_errors, errors, xml_data, todo,
                   class_files, raised, TextLocals>>

\* line 532: after the loop, the table of contents is written
WriteToc ==
    /\ pc = "classes"
    /\ todo = <<>>
    /\ written' = Append(written, make_yml_toc(class_files))
    /\ pc' = "done"
    /\ UNCHANGED <<input, classes, current_class, num_errors, errors, xml_data, todo,
                   class_files, raised, TextLocals>>

BuildNext ==
    \/ ReadXml
    \/ ReadDone
    \/ ParseClass
    \/ ParseDone
    \/ WriteClass
    \/ WriteToc

\* main is sequential code: once called, it takes its next step
BuildSpec == BuildInit /\ [][BuildNext]_vars /\ WF_vars(BuildNext)

---------------------------------------------------------------------------
(* sanitize_operator_name (lines 360-368), as make_method_signature calls  *)
(* it for the operators of a class (line 1003; gdxml2yml.py:407-411).      *)

\* lines 37-59
operator_lookup ==
    ("!=" :> "neq") @@ ("==" :> "eq") @@ ("<" :> "lt") @@ ("<=" :> "lte") @@ (">" :> "gt")
        @@ (">=" :> "gte") @@ ("+" :> "sum") @@ ("-" :> "dif") @@ ("*" :> "mul")
        @@ ("/" :> "div") @@ ("%" :> "mod") @@ ("**" :> "pow") @@ ("unary+" :> "unplus")
        @@ ("unary-" :> "unminus") @@ ("<<" :> "bwsl") @@ (">>" :> "bwsr")
        @@ ("&" :> "bwand") @@ ("|" :> "bwor") @@ ("^" :> "bwxor") @@ ("~" :> "bwnot")
        @@ ("[]" :> "idx")

\* sanitize_operator_name, had it returned the fallback name without printing anything
sanitize_operator_name_silent(dirty_name) ==
    LET clear_name == Replace(dirty_name, "operator ", "")
    IN  IF clear_name \in DOMAIN operator_lookup
        THEN [out |-> operator_lookup[clear_name], errs |-> <<>>]
        ELSE [out |-> "xxx", errs |-> <<>>]

\* lines 360-368: the name returned and the errors printed
sanitize_operator_name(dirty_name) ==
    LET clear_name == Replace(dirty_name, "operator ", "")
    IN  IF clear_name \in DOMAIN operator_lookup
        THEN [out |-> operator_lookup[clear_name], errs |-> <<>>]
        ELSE [out  |-> "xxx",
              errs |-> <<"Unsupported operator type \"" \o dirty_name
                           \o "\", please add the missing rule.">>]

\* symbols that the table does not hold
UnknownOperators == {"", "===", "<>", "and", "unary*", "operator", "+ ", "=", "xxx"}

\* the names of operator definitions: a symbol, as such and behind "operator ", and one
\* name with the prefix twice
OperatorNames ==
    {prefix \o symbol : prefix \in {"", "operator "},
                        symbol \in DOMAIN operator_lookup \cup UnknownOperators}
        \cup {"operator operator +"}

MaxOperators == 2

\* the operators of a class, in the order of the loop: at most MaxOperators names
OperatorLists ==
    UNION {[1..n -> OperatorNames] : n \in 0..MaxOperators}

\* the operators of a class are about to be signed: nothing is printed yet
OperatorInit ==
    /\ input \in {[operators |-> l] : l \in OperatorLists}
    /\ classes = <<>>
    /\ current_class = ""
    /\ context = NoContext
    /\ num_errors = 0
    /\ num_warnings = 0
    /\ errors = <<>>
    /\ warnings = <<>>
    /\ parity_hits = 0
    /\ pc = "operators"
    /\ text = ""
    /\ pos = 0
    /\ endq_pos = 0
    /\ pre_text = ""
    /\ post_text = ""
    /\ tag_text = ""
    /\ tag_depth = 0
    /\ inside_code = FALSE
    /\ inside_code_tag = ""
    /\ inside_code_tabs = FALSE
    /\ ignore_code_warnings = FALSE
    /\ has_codeblocks_gdscript = FALSE
    /\ has_codeblocks_csharp = FALSE
    /\ result = ""
    /\ raised = ""
    /\ taken = <<>>
    /\ earlier = NoCall
    /\ xml_data = <<>>
    /\ todo = input.operators
    /\ class_files = <<>>
    /\ written = <<>>
    /\ inherits = ""
    /\ all_inherits = <<>>

\* one call of sanitize_operator_name, for the next operator of the class
SanitizeOperator ==
    /\ pc = "operators"
    /\ todo # <<>>
    /\ LET r == sanitize_operator_name(Head(todo))
       IN  /\ PrintErrors(r.errs)
           /\ written' = Append(written, r.out)
    /\ todo' = Tail(todo)
    /\ UNCHANGED <<input, classes, current_class, pc, xml_data, class_files, raised,
                   TextLocals>>

\* the loop over the operators ends
OperatorsDone ==
    /\ pc = "operators"
    /\ todo = <<>>
    /\ pc' = "done"
    /\ UNCHANGED <<input, classes, current_class, num_errors, errors, xml_data, todo,
                   class_files, written, raised, TextLocals>>

OperatorNext ==
    \/ SanitizeOperator
    \/ OperatorsDone

OperatorSpec == OperatorInit /\ [][OperatorNext]_vars

---------------------------------------------------------------------------
(* gdxml2yml.py, _get_class_inheritance (lines 102-113), as _get_class_yml *)
(* calls it for a class that names a parent (lines 245-246).               *)

\* what the inherits attribute of a class may hold: nothing, a class of the table, a class
\* that the table does not hold, and a name with a space behind it
ParentNames == {"", "A", "B", "C", "X", "B "}

\* state.classes with the classes A, B and C, each with its inherits
InheritTables ==
    {[n \in {"A", "B", "C"} |-> [ClassDef(n, {}, {}, NoEnums) EXCEPT !.inherits = parent[n]]] :
        parent \in [{"A", "B", "C"} -> ParentNames]}

MaxWalk == 5

\* all_inherits.append(inode): the model keeps the first MaxWalk entries of the list, which
\* is enough for every chain without a cycle and keeps the states of an endless walk finite
Appended(list, inode) == IF Len(list) < MaxWalk THEN Append(list, inode) ELSE list

\* _get_class_yml has come to the inheritance of a class: no local is set yet
WalkInit ==
    /\ input \in {[classes |-> t, class_name |-> c] : t \in InheritTables, c \in {"A", "B", "C"}}
    /\ classes = input.classes
    /\ current_class = input.class_name
    /\ context = NoContext
    /\ num_errors = 0
    /\ num_warnings = 0
    /\ errors = <<>>
    /\ warnings = <<>>
    /\ parity_hits = 0
    /\ pc = "inheritance"
    /\ text = ""
    /\ pos = 0
    /\ endq_pos = 0
    /\ pre_text = ""
    /\ post_text = ""
    /\ tag_text = ""
    /\ tag_depth = 0
    /\ inside_code = FALSE
    /\ inside_code_tag = ""
    /\ inside_code_tabs = FALSE
    /\ ignore_code_warnings = FALSE
    /\ has_codeblocks_gdscript = FALSE
    /\ has_codeblocks_csharp = FALSE
    /\ result = ""
    /\ raised = ""
    /\ taken = <<>>
    /\ earlier = NoCall
    /\ xml_data = <<>>
    /\ todo = <<>>
    /\ class_files = <<>>
    /\ written = <<>>
    /\ inherits = ""
    /\ all_inherits = <<>>

\* what the walk leaves alone
WalkFrame == <<input, classes, current_class, context, num_errors, num_warnings, errors,
               warnings, parity_hits, text, pos, TagParts, TagLocals, result, raised, taken,
               earlier, xml_data, todo, class_files>>

\* gdxml2yml.py:245-246 and 104-105: a class that names a parent is walked from that
\* parent on; for any other class the function is not called
WalkStart ==
    /\ pc = "inheritance"
    /\ IF classes[input.class_name].inherits # ""
       THEN /\ inherits' = Strip(classes[input.class_name].inherits)
            /\ all_inherits' = <<Strip(classes[input.class_name].inherits)>>
            /\ pc' = "walk"
       ELSE /\ pc' = "done"
            /\ UNCHANGED <<inherits, all_inherits>>
    /\ UNCHANGED <<WalkFrame, written>>

\* lines 106-108: the loop goes on while the class walked to is in the table and names a
\* parent
GoesOn == inherits \in DOMAIN classes /\ classes[inherits].inherits # ""

\* lines 106-110: the class walked to is in the table and names a parent
WalkStep ==
    /\ pc = "walk"
    /\ GoesOn
    /\ inherits' = Strip(classes[inherits].inherits)
    /\ all_inherits' = Appended(all_inherits, classes[inherits].inherits)
    /\ UNCHANGED <<WalkFrame, written, pc>>

\* lines 106 and 111-113, had the walk also ended at a class that it has listed before
WalkReturnAtRepeat ==
    /\ pc = "walk"
    /\ IF GoesOn
       THEN Cardinality({i \in DOMAIN all_inherits : Strip(all_inherits[i]) = inherits}) > 1
       ELSE TRUE
    /\ written' = all_inherits
    /\ pc' = "done"
    /\ UNCHANGED <<WalkFrame, inherits, all_inherits>>

\* lines 106 and 111-113: the class walked to is not in the table, or names no parent
WalkReturn ==
    /\ pc = "walk"
    /\ ~GoesOn
    /\ written' = all_inherits
    /\ pc' = "done"
    /\ UNCHANGED <<WalkFrame, inherits, all_inherits>>

WalkNext ==
    \/ WalkStart
    \/ WalkStep
    \/ WalkReturn

\* the walk is sequential code: while it has a next step, it takes it
WalkSpec == WalkInit /\ [][WalkNext]_vars /\ WF_vars(WalkNext)

(* Vocabulary of the properties: what a description holds and what was printed. *)

Last(q) == q[Len(q)]

Front(q) == SubSeq(q, 1, Len(q) - 1)

\* how many of the messages q are m
Occurrences(q, m) == Cardinality({i \in DOMAIN q : q[i] = m})

\* how many of the messages q hold the words w
Mentions(q, w) == Cardinality({i \in DOMAIN q : Find(q[i], w, 0) # -1})

RECURSIVE TagsOf(_)
\* the tags of s in order, delimited as lines 430-440 delimit them
TagsOf(s) ==
    LET p == Find(s, "[", 0)
        q == IF p = -1 THEN -1 ELSE Find(s, "]", p + 1)
    IN  IF p = -1 \/ q = -1 THEN <<>>
        ELSE <<get_tag_and_args(Slice(s, p + 1, q))>> \o TagsOf(SliceFrom(s, q + 1))

\* the tags that change tag_depth
DepthTags == {"b", "i", "u", "center", "kbd", "code", "codeblock", "gdscript", "csharp",
              "codeblocks"}

\* the tags between which inside_code is set
CodeRegionTags == {"code", "codeblock", "gdscript", "csharp"}

\* the message of lines 958-963
DepthMismatch ==
    current_class \o ".xml: Tag depth mismatch: too many (or too few) open/close tags in "
        \o context_name \o "."

\* among the tags q every opening tag named n is followed by a closing tag of its own
MatchedFor(q, n) ==
    LET opens(k)  == Cardinality({i \in 1..k : q[i].name = n /\ ~q[i].closing})
        closes(k) == Cardinality({i \in 1..k : q[i].name = n /\ q[i].closing})
    IN  /\ opens(Len(q)) = closes(Len(q))
        /\ \A k \in 1..Len(q) : closes(k) <= opens(k)

\* every depth-affecting opening tag of the description has a matching closing tag
Matched == \A n \in DepthTags : MatchedFor(TagsOf(input.text), n)

RECURSIVE Nests(_, _)
\* the tags q, met with the tags of open still open, are properly nested: every closing tag
\* closes the tag opened last, no code region is opened inside a code region of its own
\* name, and nothing stays open
Nests(q, open) ==
    IF q = <<>> THEN open = <<>>
    ELSE LET t == Head(q)
         IN  IF t.name \notin DepthTags \cup {"url"} THEN Nests(Tail(q), open)
             ELSE IF t.closing
             THEN open # <<>> /\ t.name = Last(open) /\ Nests(Tail(q), Front(open))
             ELSE /\ ~(t.name \in CodeRegionTags /\ t.name \in Range(open))
                  /\ Nests(Tail(q), Append(open, t.name))

\* how many times the character ch stands in s
Count(s, ch) == Cardinality({i \in 1..Len(s) : SubSeq(s, i, i) = ch})

\* every "[" and every "]" of the description delimits a tag
OnlyTagBrackets ==
    /\ Count(input.text, "[") = Len(TagsOf(input.text))
    /\ Count(input.text, "]") = Len(TagsOf(input.text))

\* every closing code tag of the description is written "[/code]", the one spelling that
\* the search of line 556 finds
PlainCodeClosings ==
    LET tags == TagsOf(input.text)
    IN  \A i \in DOMAIN tags :
            (tags[i].closing /\ tags[i].name = "code") => tags[i].raw = "/code"

WellNested == OnlyTagBrackets /\ PlainCodeClosings /\ Nests(TagsOf(input.text), <<>>)

C2_NonzeroDepthIsReported ==
    (pc = "done" /\ tag_depth # 0) =>
        (Occurrences(errors, DepthMismatch) = 1 /\ result = text)

(* C3 *)

\* the description holds a [codeblock] tag at index p with no [/codeblock] after it
UnterminatedAt(p) ==
    /\ Slice(input.text, p, p + 11) = "[codeblock]"
    /\ Find(input.text, "[/codeblock]", p) = -1

\* the [codeblock] tag at index p is what follows a line break and its tabs
OpensLineAt(p) ==
    \E n \in 0..(p - 1) :
        /\ CharAt(input.text, n) = "\n"
        /\ \A k \in (n + 1)..(p - 1) : CharAt(input.text, k) = "\t"

Indexes == 0..(Len(input.text) - 1)

UrlUnclosed ==
    /\ last.branch = "url"
    /\ get_tag_and_args(last.raw).arguments # ""
    /\ Find(last.post, "[/url]", 0) = -1

\* C4 (as stated): a [url=...] tag with no following [/url] makes the call report the
\* error and return empty text.
C4_AsStated ==
    (pc = "done" /\ UrlUnclosed) =>
        (result = "" /\ Mentions(errors, "no closing [/url]") = 1)

\* C4 (amended): a [url=...] tag with no following [/url] ends the scan with one
\* 'no closing [/url]' error: no further tag is taken, and the call returns the text as
\* transpiled before the tag, followed by the tag and the text after it as they stood;
\* what it returns is never empty.
C4_UnclosedUrlEndsScan ==
    UrlUnclosed =>
        /\ pc \in {"end", "done"}
        /\ Mentions(errors, "no closing [/url]") = 1
        /\ text = pre_text \o "[" \o last.raw \o "]" \o last.post
        /\ pc = "done" => (result = text /\ result # "")

\* the call has returned after an unclosed [url=...] that came after other text
C4_Witness ==
    /\ pc = "done"
    /\ UrlUnclosed
    /\ pre_text # ""
    /\ last.post # ""
    /\ result = pre_text \o "[url=u]" \o last.post
    /\ Occurrences(errors, DepthMismatch) = 1
    /\ num_errors = 2

(* C5 and C6 *)

\* the cross-reference token of lines 795-802
XrefToken(class_name, name) == "<xref href=\"" \o class_name \o "." \o name \o "\"></xref>"

\* the class named c holds FOO, as a constant or as a value of one of its enums
HoldsFoo(c) ==
    \/ "FOO" \in classes[c].constants
    \/ \E en \in DOMAIN classes[c].enums : "FOO" \in classes[c].enums[en].values

\* the tag the scan took last was the cross-reference [raw], met outside code
TookCrossLink(raw) == last.branch = "crosslink" /\ last.raw = raw /\ last.exit = "next"

\* C5: in a description of class A, with FOO neither a constant nor an enum value of A and
\* FOO a constant of @GlobalScope, [constant FOO] becomes a reference to @GlobalScope.FOO
\* and prints no error, and [constant A.FOO] stays a reference to A.FOO and prints exactly
\* one error, 'Unresolved constant reference'.
C5_BareConstantFallsBackToGlobalScope ==
    (/\ current_class = "A"
     /\ ~HoldsFoo("A")
     /\ "FOO" \in classes["@GlobalScope"].constants) =>
        /\ TookCrossLink("constant FOO") =>
              /\ last.out = XrefToken("@GlobalScope", "FOO")
              /\ last.errs = <<>>
        /\ TookCrossLink("constant A.FOO") =>
              /\ last.out = XrefToken("A", "FOO")
              /\ Len(last.errs) = 1
              /\ Mentions(last.errs, "Unresolved constant reference \"A.FOO\"") = 1

\* both tags in one description of A: the call has returned with the one error
C5_Witness ==
    /\ pc = "done"
    /\ input.text = "[constant FOO] or [constant A.FOO]"
    /\ current_class = "A"
    /\ ~HoldsFoo("A")
    /\ "FOO" \in classes["@GlobalScope"].constants
    /\ result = XrefToken("@GlobalScope", "FOO") \o " or " \o XrefToken("A", "FOO")
    /\ num_errors = 1
    /\ Mentions(errors, "Unresolved constant reference \"A.FOO\"") = 1

\* C6: when the current class holds FOO (as a constant or as an enum value) and
\* @GlobalScope holds FOO too, the token of a bare [constant FOO] points at the current
\* class, the first class searched.
C6_FirstMatchWins ==
    (/\ TookCrossLink("constant FOO")
     /\ HoldsFoo(current_class)
     /\ HoldsFoo("@GlobalScope")) =>
        last.out = XrefToken(current_class, "FOO")

(* C7 and C8 *)

\* C7: [method M.thing] with M no class of the table prints exactly one error, and the
\* tag is replaced by a token, so that the text returned is not empty.
C7_MissingClassOfMethod ==
    LET ts     == get_tag_and_args(last.raw)
        target == Split(ts.arguments, ".")
    IN  (/\ last.branch = "crosslink"
         /\ ts.name = "method"
         /\ Len(target) = 2
         /\ target[1] \notin DOMAIN classes
         /\ target[2] = "thing") =>
            /\ Len(last.errs) = 1
            /\ Mentions(last.errs, "Unresolved type reference \"" \o target[1] \o "\"") = 1
            /\ last.out = XrefToken(target[1], "thing")
            /\ last.exit = "next"
            /\ pc = "done" => (result # "" /\ Find(result, last.out, 0) # -1)
            /\ (pc = "done" /\ Len(TagsOf(input.text)) = 1) => num_errors = 1

\* the call has returned for a sentence that holds [method Missing.thing]
C7_Witness ==
    /\ pc = "done"
    /\ input.text = "See [method Missing.thing] here."
    /\ result = "See " \o XrefToken("Missing", "thing") \o " here."
    /\ num_errors = 1

\* C8 (as stated): a cross-reference tag that printed an error is never replaced by the
\* empty string.
C8_AsStated ==
    (last.branch = "crosslink" /\ last.errs # <<>>) => last.out # ""

\* C8 (amended): a cross-reference tag with a link target (some text after the tag's
\* name) that printed an error is never replaced by the empty string; a tag with no link
\* target is replaced by the empty string, with the error 'Empty cross-reference link'.
C8_FailedCrossLinkKeepsToken ==
    LET ts == get_tag_and_args(last.raw)
    IN  (last.branch = "crosslink" /\ last.exit = "next") =>
            /\ (ts.arguments # "" /\ last.errs # <<>>) => last.out # ""
            /\ ts.arguments = "" =>
                  /\ last.out = ""
                  /\ Len(last.errs) = 1
                  /\ Mentions(last.errs, "Empty cross-reference link") = 1

\* an enum that no class holds was met in a sentence: its name stands in the text returned
C8_Witness ==
    /\ pc = "done"
    /\ input.text = "See [enum bar] here."
    /\ last.errs # <<>>
    /\ last.out = "bar"
    /\ result = "See bar here."

(* C9 and C10 *)

\* the token of make_type for a class of the table
TypeToken(class_name) ==
    "<xref href=\"" \o class_name \o "\" data-throw-if-not-resolved=\"false\"></xref>"

\* the scan has just replaced a tag [C], C a class of the table other than the current one
TookOtherClass ==
    /\ pc = "tags"
    /\ last.branch = "class"
    /\ last.raw \in DOMAIN classes
    /\ last.raw # current_class

\* C9 (as stated): [C], C a known class other than the current one, met outside code, is
\* replaced by one token for C, the text after the tag follows unchanged, and nothing is
\* printed.
C9_AsStated ==
    TookOtherClass =>
        /\ text = pre_text \o TypeToken(last.raw) \o last.post
        /\ last.errs = <<>>
        /\ last.warns = <<>>

\* the text of post before its first "[" holds neither "*" nor "_"
NothingToEscape(post) ==
    LET next_brac_pos == Find(post, "[", 0)
        plain == IF next_brac_pos = -1 THEN post ELSE Slice(post, 0, next_brac_pos)
    IN  Find(plain, "*", 0) = -1 /\ Find(plain, "_", 0) = -1

\* C9 (amended): [C], C a known class other than the current one, met outside code, is
\* replaced by one token for C and nothing is printed; the text after the tag starts right
\* after the token, from its first "[" on it is as it was, and it is unchanged altogether
\* when it holds no "*" and no "_" before its first "[".
C9_OtherClassBecomesToken ==
    TookOtherClass =>
        /\ tag_text = TypeToken(last.raw)
        /\ text = pre_text \o TypeToken(last.raw) \o post_text
        /\ pos = Len(pre_text) + Len(tag_text)
        /\ last.errs = <<>>
        /\ last.warns = <<>>
        /\ NothingToEscape(last.post) => post_text = last.post
        /\ LET b == Find(last.post, "[", 0)
           IN  b # -1 => EndsWith(post_text, SliceFrom(last.post, b))

\* "See [Node] for details." in a description of A: the call has returned
C9_Witness ==
    /\ pc = "done"
    /\ input.text = "See [Node] for details."
    /\ current_class = "A"
    /\ result = "See " \o TypeToken("Node") \o " for details."
    /\ num_errors = 0
    /\ num_warnings = 0

\* C10: [C], C the current class, never becomes a link to C: outside code it becomes
\* **C**, and inside a code region it stays [C].
C10_CurrentClassIsNeverLinked ==
    (last.raw = current_class /\ last.raw \in DOMAIN classes /\ last.exit = "next") =>
        /\ ~last.code => (last.branch = "class" /\ last.out = "**" \o current_class \o "**")
        /\ last.code => (last.branch = "inside_code" /\ last.out = "[" \o current_class \o "]")
        /\ pc = "done" => Find(result, "href=\"" \o current_class \o "\"", 0) = -1

\* a description of A that names A outside and inside [code]: the call has returned
C10_Witness ==
    /\ pc = "done"
    /\ input.text = "[A] is not [code][A][/code]"
    /\ current_class = "A"
    /\ result = "**A** is not " \o Literal \o "[A]" \o Literal

(* C11 *)

\* the description is [code]X[/code] and nothing else, X without a tag or a line break
CodeAlone ==
    /\ StartsWith(input.text, "[code]")
    /\ EndsWith(input.text, "[/code]")
    /\ Len(input.text) >= 13
    /\ Find(Slice(input.text, 6, Len(input.text) - 7), "[", 0) = -1
    /\ Find(Slice(input.text, 6, Len(input.text) - 7), "\n", 0) = -1

\* the X of [code]X[/code]
CodeString == Slice(input.text, 6, Len(input.text) - 7)

\* X as a name: without the "()" of a call
CodeName ==
    IF EndsWith(CodeString, "()") THEN Slice(CodeString, 0, Len(CodeString) - 2)
    ELSE CodeString

\* what the class named c holds, of every kind
Members(c) ==
    classes[c].methods \cup classes[c].constructors \cup classes[c].operators
        \cup classes[c].properties \cup classes[c].signals \cup classes[c].annotations
        \cup classes[c].theme_items \cup classes[c].constants
        \cup UNION {classes[c].enums[en].values : en \in DOMAIN classes[c].enums}

\* n names a class, a member of some class (bare or qualified) or a parameter of the context
NamesSomething(n) ==
    \/ n \in DOMAIN classes
    \/ \E c \in DOMAIN classes : \E m \in Members(c) : n = m \/ n = c \o "." \o m
    \/ n \in Range(context.parameters)

\* the warning for a code string that matches method n of the current class
MethodWarning(n) == "matches the " \o current_class \o "." \o n \o " method"

\* C11 (as stated): [code]X[/code] returns X in inline-code delimiters and prints no
\* error; it prints no warning when X names nothing known, and exactly one warning when X
\* names a method of the current class.
C11_AsStated ==
    (pc = "done" /\ CodeAlone) =>
        /\ result = Literal \o CodeString \o Literal
        /\ errors = <<>>
        /\ ~NamesSomething(CodeName) => warnings = <<>>
        /\ CodeName \in classes[current_class].methods => Len(warnings) = 1

\* C11 (amended): [code]X[/code] returns X in inline-code delimiters and prints no error;
\* it prints no warning when X names nothing known, and exactly one warning, the one for
\* the method, when X names a method of the current class and neither a class nor a
\* parameter of the context.
C11_CodeStringLint ==
    (pc = "done" /\ CodeAlone) =>
        /\ result = Literal \o CodeString \o Literal
        /\ errors = <<>>
        /\ ~NamesSomething(CodeName) => warnings = <<>>
        /\ (/\ CodeName \in classes[current_class].methods
            /\ CodeName \notin DOMAIN classes
            /\ CodeName \notin Range(context.parameters)) =>
                /\ Len(warnings) = 1
                /\ Mentions(warnings, MethodWarning(CodeName)) = 1

\* [code]foo[/code] in a description of A, which holds the method foo: the call has
\* returned with the one warning
C11_Witness ==
    /\ pc = "done"
    /\ input.text = "[code]foo[/code]"
    /\ current_class = "A"
    /\ "foo" \in classes["A"].methods
    /\ result = Literal \o "foo" \o Literal
    /\ num_warnings = 1
    /\ num_errors = 0

(* C12 *)

\* the call under way is the second of a pair, and it has taken the one tag that has
\* skip-lint as an opening [code] tag
TookSkipLint(i) ==
    /\ earlier.made
    /\ i \in DOMAIN taken
    /\ taken[i].branch = "code"
    /\ taken[i].raw = "code skip-lint"

\* C12 (as stated): the text returned for a description is the text returned for it with
\* skip-lint on one of its opening [code] tags.
C12_AsStated ==
    (pc = "done" /\ \E i \in DOMAIN taken : TookSkipLint(i)) =>
        (earlier.raised = "" /\ result = earlier.result)

\* C12, where it holds: when a [/code] follows the opening [code] tag, the call ends in
\* the same way, returns the same text and prints the same errors with skip-lint on that
\* tag as without it.
C12_SkipLintKeepsOutput ==
    \A i \in DOMAIN taken :
        (/\ pc \in {"done", "raised"}
         /\ TookSkipLint(i)
         /\ Find(taken[i].post, "[/code]", 0) # -1) =>
            /\ raised = earlier.raised
            /\ result = earlier.result
            /\ errors = earlier.errors

\* [code]foo[/code], which prints a warning in a description of A, and
\* [code skip-lint]foo[/code], which prints none, have returned the same text
C12_Witness ==
    /\ pc = "done"
    /\ earlier.made
    /\ earlier.text = "See [code]foo[/code] here."
    /\ input.text = "See [code skip-lint]foo[/code] here."
    /\ current_class = "A"
    /\ warnings = <<>>
    /\ result = earlier.result
    /\ result = "See " \o Literal \o "foo" \o Literal \o " here."

(* C13 *)

\* the tag at hand is the closing tag of the code region the scan is in
ClosesRegion == TagState.closing /\ TagState.name = inside_code_tag

\* C13: inside a code region, a tag other than the closing tag named like the tag that
\* opened the region is put back as the literal text [tag]: no error is printed, the depth
\* and the mode stay as they are and the scan goes on; the closing tag of the region, when
\* the scan goes on after it, is what ends the code mode, one level up.
C13_InsideCodeTagsAreLiteral ==
    [][/\ (pc = "tag" /\ inside_code /\ ~ClosesRegion) =>
              /\ pc' = "tags"
              /\ text' = pre_text \o "[" \o tag_text \o "]" \o post_text
              /\ pos' = Len(pre_text) + Len(tag_text) + 2
              /\ errors' = errors
              /\ num_errors' = num_errors
              /\ tag_depth' = tag_depth
              /\ inside_code'
              /\ inside_code_tag' = inside_code_tag
              /\ inside_code_tabs' = inside_code_tabs
              /\ ignore_code_warnings' = ignore_code_warnings
       /\ (pc = "tag" /\ inside_code /\ ~inside_code') =>
              /\ ClosesRegion
              /\ tag_depth' = tag_depth - 1
      ]_vars

\* a cross-reference to a class that does not exist and a closing tag of another name were
\* met between [code] and [/code]: they stand in the text returned, and no error was printed
C13_Witness ==
    /\ pc = "done"
    /\ input.text = "[code][method Missing.thing][/b][/code]"
    /\ result = Literal \o "[method Missing.thing][/b]" \o Literal
    /\ ~inside_code
    /\ tag_depth = 0
    /\ num_errors = 0
    /\ Len(taken) = 4
    /\ taken[2].branch = "inside_code"
    /\ taken[3].branch = "inside_code"

(* C14 *)

\* the tag that opened the code region the scan is in: the latest tag taken by an arm that
\* sets inside_code
RegionOpener ==
    LET opens == {i \in DOMAIN taken : taken[i].branch \in {"code", "codeblock"}}
    IN  taken[CHOOSE i \in opens : \A j \in opens : j <= i]

\* the code region the scan is in was opened with the argument skip-lint
OpenedWithSkipLint ==
    "skip-lint" \in Range(Split(get_tag_and_args(RegionOpener.raw).arguments, " "))

\* C14: inside a code region, a closing tag that is not the closing tag of the region
\* prints exactly one warning when the region was opened without skip-lint and none when
\* it was opened with skip-lint; a tag that is not a closing tag prints no warning; and
\* when the region is closed the skip-lint setting is off again.
C14_ClosingTagInCodeWarns ==
    [][/\ (pc = "tag" /\ inside_code /\ ~ClosesRegion) =>
              /\ (TagState.closing /\ ~OpenedWithSkipLint) =>
                     /\ Len(warnings') = Len(warnings) + 1
                     /\ num_warnings' = num_warnings + 1
                     /\ Find(Last(warnings'), "looks like a closing tag \"[" \o tag_text \o "]\"", 0)
                            # -1
              /\ (~TagState.closing \/ OpenedWithSkipLint) =>
                     /\ warnings' = warnings
                     /\ num_warnings' = num_warnings
       /\ (pc = "tag" /\ inside_code /\ ~inside_code') => ~ignore_code_warnings'
      ]_vars

\* a region opened with skip-lint and then one opened without, each with a closing tag of
\* another name inside: the call has returned with the one warning, for the second
C14_Witness ==
    /\ pc = "done"
    /\ input.text = "[code skip-lint][method Missing.thing][/b][/code][code][/i][/code]"
    /\ num_warnings = 1
    /\ Mentions(warnings, "looks like a closing tag \"[/i]\"") = 1
    /\ Mentions(warnings, "[/b]") = 0
    /\ ~ignore_code_warnings

(* C15 *)

\* the scan mode: inside code or not, the tag that opened the code region, and inside the
\* [codeblocks] container or not
Mode == <<inside_code, inside_code_tag, inside_code_tabs>>

\* the tags that open and close code regions and the container
ModeTags == {"code", "codeblock", "gdscript", "csharp", "codeblocks"}

\* C15: within a call, the scan mode changes only in the step that replaces a tag named
\* code, codeblock, gdscript, csharp or codeblocks; every other tag, the formatting tags
\* that change the depth among them, leaves inside_code, inside_code_tag and
\* inside_code_tabs as they were.
C15_ModeChangesOnlyOnCodeTags ==
    [][(pc \notin {"done", "raised"} /\ Mode' # Mode) =>
           (pc = "tag" /\ TagState.name \in ModeTags)
      ]_vars

\* [b] and [/kbd] were taken inside the [codeblocks] container: the depth has changed, the
\* mode has not
C15_Witness ==
    /\ pc = "tags"
    /\ input.text = "[codeblocks][b][kbd]x[/kbd][/b][/codeblocks]"
    /\ Len(taken) = 3
    /\ taken[1].raw = "codeblocks"
    /\ taken[2].raw = "b"
    /\ taken[3].raw = "kbd"
    /\ tag_depth = 3
    /\ Mode = <<FALSE, "", TRUE>>

(* C16 *)

\* the scan handles, outside code and outside a container, the opening tag of a sample
OpensSampleOutside ==
    /\ pc = "tag"
    /\ ~inside_code
    /\ ~inside_code_tabs
    /\ ~TagState.closing
    /\ TagState.name \in {"gdscript", "csharp"}

\* the error of lines 514-518 and 524-528
UsedOutside(name) ==
    current_class \o ".xml: " \o (IF name = "gdscript" THEN "GDScript" ELSE "C#")
        \o " code block is used outside of [codeblocks] in " \o context_name \o "."

\* C16: the step that handles an opening [gdscript] or [csharp] tag outside a [codeblocks]
\* container prints exactly one error, leaves the flags of the languages seen as they
\* were, and does not abort: it increments tag_depth, enters code mode under the tag's name
\* and goes on to the next tag.
C16_SampleOutsideContainer ==
    [][OpensSampleOutside =>
          /\ errors' = Append(errors, UsedOutside(TagState.name))
          /\ has_codeblocks_gdscript' = has_codeblocks_gdscript
          /\ has_codeblocks_csharp' = has_codeblocks_csharp
          /\ parity_hits' = parity_hits
          /\ tag_depth' = tag_depth + 1
          /\ inside_code'
          /\ inside_code_tag' = TagState.name
          /\ pc' = "tags"
          /\ raised' = raised
      ]_vars

\* a [gdscript] sample stood before a container that holds a [csharp] sample only: the one
\* error was printed, the scan went through the container, whose closing tag recorded a
\* hit because the sample outside did not count
C16_Witness ==
    /\ pc = "done"
    /\ input.text = GdscriptSample \o Container(CsharpSample)
    /\ errors = <<UsedOutside("gdscript")>>
    /\ result # ""
    /\ Len(taken) = 6
    /\ taken[6].hits = 1
    /\ parity_hits = 1
    /\ tag_depth = 0

(* C17 *)

\* the tag taken i-th was handled by the [codeblocks] arm in its closing form
ClosedContainer(i) ==
    taken[i].branch = "codeblocks" /\ get_tag_and_args(taken[i].raw).closing

\* the tag taken i-th was handled by the [codeblocks] arm in its opening form
OpenedContainer(i) ==
    taken[i].branch = "codeblocks" /\ ~get_tag_and_args(taken[i].raw).closing

\* a region of the language was opened inside the container being closed: after a
\* [codeblocks] that follows the latest [/codeblocks] taken
OpenedInContainer(language) ==
    \E o, i \in DOMAIN taken :
        /\ o < i
        /\ OpenedContainer(o)
        /\ \A c \in o..Len(taken) : ~ClosedContainer(c)
        /\ taken[i].branch = "codeblock"
        /\ get_tag_and_args(taken[i].raw).name = language

\* the scan handles, outside code, a closing [/codeblocks]
ClosesContainer ==
    /\ pc = "tag"
    /\ Branch = "codeblocks"
    /\ TagState.closing

\* C17: the step that handles a closing [/codeblocks] records one parity hit when fewer
\* than both languages were opened inside the container since it was opened and none
\* otherwise, resets both flags of the languages seen, prints nothing and goes on to the
\* next tag.
C17_ParityPerContainer ==
    [][ClosesContainer =>
          /\ parity_hits' = parity_hits +
                 (IF OpenedInContainer("gdscript") /\ OpenedInContainer("csharp")
                  THEN 0 ELSE 1)
          /\ ~has_codeblocks_gdscript'
          /\ ~has_codeblocks_csharp'
          /\ errors' = errors
          /\ pc' = "tags"
          /\ raised' = raised
      ]_vars

\* a container with a [gdscript] sample only was followed by a container with a [csharp]
\* sample only: each closing tag recorded a hit, the second because the sample of the first
\* container did not count for it
C17_Witness ==
    /\ pc = "done"
    /\ input.text = Container(GdscriptSample) \o Container(CsharpSample)
    /\ Len(taken) = 8
    /\ taken[4].raw = "/codeblocks"
    /\ taken[4].hits = 1
    /\ taken[8].raw = "/codeblocks"
    /\ taken[8].hits = 1
    /\ parity_hits = 2
    /\ errors = <<>>

(* C18 *)

\* the collection of the class where lines 711-764 look for a member of the kind
Collection(class_def, kind) ==
    CASE kind = "method"      -> class_def.methods
      [] kind = "constructor" -> class_def.constructors
      [] kind = "operator"    -> class_def.operators
      [] kind = "member"      -> class_def.properties
      [] kind = "signal"      -> class_def.signals
      [] kind = "annotation"  -> class_def.annotations
      [] kind = "theme_item"  -> class_def.theme_items

\* the target is Name or Class.Name: it is not empty and holds at most one "."
NameOrClassName(link_target) == link_target # "" /\ Count(link_target, ".") <= 1

\* the class that the target names: the one before its ".", the current class without
TargetClass(link_target) ==
    IF Count(link_target, ".") = 0 THEN current_class
    ELSE Slice(link_target, 0, Find(link_target, ".", 0))

\* the member that the target names
TargetName(link_target) ==
    IF Count(link_target, ".") = 0 THEN link_target
    ELSE SliceFrom(link_target, Find(link_target, ".", 0) + 1)

\* the scan handles a reference to a method, constructor, operator, member, signal,
\* annotation or theme item whose target is Name or Class.Name
RefersToMember ==
    /\ pc = "tag"
    /\ Branch = "crosslink"
    /\ TagState.name \in DOMAIN MemberKinds
    /\ NameOrClassName(TagState.arguments)

\* C18: the step that handles [method T], [constructor T], [operator T], [member T],
\* [signal T], [annotation T] or [theme_item T], T being Name or Class.Name, prints no
\* error exactly when the target class (the current class for a bare Name) is in the class
\* table and holds the name in its collection of that very kind; a member of that name of
\* another kind does not do.
C18_MemberOfTheSameKind ==
    [][RefersToMember =>
          (errors' = errors <=>
              /\ TargetClass(TagState.arguments) \in DOMAIN classes
              /\ TargetName(TagState.arguments)
                     \in Collection(classes[TargetClass(TagState.arguments)], TagState.name))
      ]_vars

\* in the description of A, [method m] resolved and printed nothing, whereas [member m]
\* after it printed an error: A holds m as a method, not as a property
C18_Witness ==
    /\ pc = "done"
    /\ input.text = "[method m] and [member m]"
    /\ current_class = "A"
    /\ "m" \in classes["A"].methods \ classes["A"].properties
    /\ Len(taken) = 2
    /\ taken[1].errs = <<>>
    /\ taken[2].errs = Unresolved("member", "m")
    /\ errors = Unresolved("member", "m")

(* C19 *)

\* the scan handles a [param P] tag
RefersToParam ==
    /\ pc = "tag"
    /\ Branch = "crosslink"
    /\ TagState.name = "param"
    /\ TagState.arguments # ""

\* the context is the definition of a method, a signal or an annotation that declares P
Declares(P) ==
    /\ context.definition_name \in {"method", "signal", "annotation"}
    /\ P \in Range(context.parameters)

\* C19: the step that handles [param P] prints no error when the context is a method,
\* signal or annotation definition one of whose parameters is named P, and exactly one
\* error otherwise; either way the tag is replaced by P between inline-code delimiters.
C19_ParamOfTheContext ==
    [][RefersToParam =>
          /\ IF Declares(TagState.arguments)
             THEN errors' = errors
             ELSE Len(errors') = Len(errors) + 1 /\ Front(errors') = errors
          /\ tag_text' = Literal \o TagState.arguments \o Literal
          /\ text' = pre_text \o Literal \o TagState.arguments \o Literal \o post_text'
      ]_vars

\* in the description of method foo(p), [param p] printed nothing and [param zzz] one
\* error, and both stand in the text as inline code
C19_Witness ==
    /\ pc = "done"
    /\ input.text = "[param p] and [param zzz]"
    /\ context = MethodContext
    /\ Len(taken) = 2
    /\ taken[1].errs = <<>>
    /\ Len(errors) = 1
    /\ Mentions(errors, "Unresolved argument reference \"zzz\"") = 1
    /\ result = Literal \o "p" \o Literal \o " and " \o Literal \o "zzz" \o Literal

(* C20 *)

\* the names of the enums of class c, none when the table does not hold c
EnumsOf(c) == IF c \in DOMAIN classes THEN DOMAIN classes[c].enums ELSE {}

\* the scan handles an [enum T] tag
RefersToEnum ==
    /\ pc = "tag"
    /\ Branch = "crosslink"
    /\ TagState.name = "enum"
    /\ TagState.arguments # ""

\* T, Class.Name, names an enum of the class it names
InNamedClass(T) == TargetName(T) \in EnumsOf(TargetClass(T))

\* T resolves: a bare name is an enum of the current class or of @GlobalScope, Variant.Name
\* is the enum of that whole name of @GlobalScope, any other Class.Name is an enum of the
\* class before its first "."
EnumResolves(T) ==
    IF Find(T, ".", 0) = -1 THEN T \in EnumsOf(current_class) \cup EnumsOf("@GlobalScope")
    ELSE IF StartsWith(T, "Variant.") THEN T \in EnumsOf("@GlobalScope")
    ELSE InNamedClass(T)

\* the error of line 122
UnresolvedEnum(T) == current_class \o ".xml: Unresolved enum \"" \o T \o "\"."

\* C20 (as stated): an [enum T] whose target is class-qualified is looked up only in the
\* class it names: it prints no error only when that class holds the enum, or T is
\* Vector3.Axis.
C20_AsStated ==
    [][(RefersToEnum /\ Find(TagState.arguments, ".", 0) # -1 /\ errors' = errors) =>
          (InNamedClass(TagState.arguments) \/ TagState.arguments = "Vector3.Axis")
      ]_vars

\* C20 (amended): the step that handles [enum T] looks a bare name up in the current class
\* and then in @GlobalScope, Variant.Name in @GlobalScope under its whole name, and any
\* other class-qualified name in the class it names only. A resolved enum prints nothing
\* and becomes a reference; an unresolved one is left as the raw target and prints exactly
\* one error, none when the target is Vector3.Axis.
C20_EnumLookup ==
    [][RefersToEnum =>
          LET T == TagState.arguments
          IN  IF EnumResolves(T)
              THEN /\ errors' = errors
                   /\ tag_text' # T
                   /\ StartsWith(tag_text', "<xref href=")
              ELSE /\ tag_text' = T
                   /\ errors' = IF T = "Vector3.Axis" THEN errors
                                ELSE Append(errors, UnresolvedEnum(T))
      ]_vars

\* in the description of A, [enum G] was found in @GlobalScope, [enum Node.G] was not
\* looked for there and printed the one error, and [enum Vector3.Axis] printed none; the
\* two unresolved targets stand in the text as they were written
C20_Witness ==
    /\ pc = "done"
    /\ input.text = "[enum G] and [enum Node.G] and [enum Vector3.Axis]"
    /\ current_class = "A"
    /\ "G" \in EnumsOf("@GlobalScope") \ (EnumsOf("A") \cup EnumsOf("Node"))
    /\ Len(taken) = 3
    /\ taken[1].errs = <<>>
    /\ taken[2].out = "Node.G"
    /\ taken[3].out = "Vector3.Axis"
    /\ errors = <<UnresolvedEnum("Node.G")>>
    /\ result = "<xref href=\"G\"></xref> and Node.G and Vector3.Axis"

(* ---------------------------------------------------------------------------------- *)
(* C21: closing tags of the formatting family without an opening tag                   *)
(* ---------------------------------------------------------------------------------- *)

\* [b], [i], [u], [center], [kbd]: the formatting tags that have a closing form
SimpleFormatTags == {"b", "i", "u", "center", "kbd"}

\* how many of the tags handled so far by the formatting arms were the tag r
Handled(r) == Cardinality({i \in DOMAIN taken : taken[i].branch = "format" /\ taken[i].raw = r})

\* the loop is at a closing tag of the family, and every opening tag of that name
\* handled before it has been closed already
ClosesUnopened ==
    /\ pc = "tag"
    /\ Branch = "format"
    /\ TagState.closing
    /\ TagState.name \in SimpleFormatTags
    /\ Handled(TagState.name) <= Handled("/" \o TagState.name)

\* C21 (as stated): a closing tag of the simple formatting family ([/b], [/i], [/u],
\* [/center], [/kbd]) that has no earlier matching opening tag is reported as an
\* "Unrecognized closing tag" error.
C21_AsStated ==
    [][ClosesUnopened =>
          Mentions(errors', "Unrecognized closing tag")
              = Mentions(errors, "Unrecognized closing tag") + 1
      ]_vars

(* ---------------------------------------------------------------------------------- *)
(* C22: unknown opening tags                                                           *)
(* ---------------------------------------------------------------------------------- *)

\* the names that one of the arms of lines 486-916 takes
TagVocabulary ==
    {"codeblocks", "code", "url", "br", "center", "i", "b", "u", "lb", "rb", "kbd"}
        \cup RESERVED_CODEBLOCK_TAGS \cup RESERVED_CROSSLINK_TAGS

\* the loop is outside a code region, at an opening tag that is no class and whose name
\* is none of the vocabulary
UnknownOpening ==
    /\ pc = "tag"
    /\ ~inside_code
    /\ tag_text \notin DOMAIN classes
    /\ ~TagState.closing
    /\ TagState.name \notin TagVocabulary

\* the error of lines 927-931
UnrecognizedOpening(raw) ==
    current_class \o ".xml: Unrecognized opening tag \"[" \o raw \o "]\" in "
        \o context_name \o "."

\* C22: outside a code region, the step that handles an opening tag whose name is neither
\* a known class nor in the tag vocabulary prints exactly one "Unrecognized opening tag"
\* error and no warning, puts the tag text between the delimiters of inline code, and
\* leaves the depth and the mode as they were.
C22_UnknownOpeningTag ==
    [][UnknownOpening =>
          /\ errors' = Append(errors, UnrecognizedOpening(tag_text))
          /\ num_errors' = num_errors + 1
          /\ warnings' = warnings
          /\ tag_text' = Literal \o tag_text \o Literal
          /\ StartsWith(text', pre_text \o Literal \o tag_text \o Literal)
          /\ tag_depth' = tag_depth
          /\ Mode' = Mode
          /\ pc' = "tags"
      ]_vars

\* "[b][color=red][/b]" printed one error for the unknown tag, at depth 1, and returned it
\* as inline code between the bold delimiters
C22_Witness ==
    /\ pc = "done"
    /\ input.text = "[b][color=red][/b]"
    /\ input.context = NoContext
    /\ Len(taken) = 3
    /\ taken[2].branch = "invalid"
    /\ errors = <<"A.xml: Unrecognized opening tag \"[color=red]\" in unknown context.">>
    /\ result = "**" \o Literal \o "color=red" \o Literal \o "**"
    /\ tag_depth = 0

(* ---------------------------------------------------------------------------------- *)
(* C23: termination                                                                    *)
(* ---------------------------------------------------------------------------------- *)

\* a call is in progress: it has neither returned nor raised
Running == pc \notin {"done", "raised"}

\* the part of the text that the loops have not passed yet
Unscanned == SliceFrom(text, pos)

\* C23: both loops of format_text_block make progress on every iteration, so that every
\* call ends. An iteration of the line-break loop that stays in the loop leaves fewer
\* line breaks at or after pos. An iteration of the tag loop that stays in the loop (the
\* url arm and its "continue" included) leaves fewer "[" at or after pos, whatever the
\* replacement and the escaping insert, and the iterations made and the "[" still to
\* scan are together no more than the "[" of the description. No step leads anywhere
\* but to the next stage of the call.
C23_Terminates ==
    /\ [][(pc = "linebreaks" /\ pc' = "linebreaks") =>
             Count(Unscanned', "\n") < Count(Unscanned, "\n")]_vars
    /\ [][(pc = "tag" /\ pc' = "tags") =>
             /\ Count(Unscanned', "[") < Count(Unscanned, "[")
             /\ Len(taken') + Count(Unscanned', "[") <= Count(input.text, "[")]_vars
    /\ [][Running =>
             <<pc, pc'>> \in {<<"linebreaks", "linebreaks">>, <<"linebreaks", "tags">>,
                              <<"linebreaks", "done">>, <<"tags", "tag">>,
                              <<"tags", "end">>, <<"tag", "tags">>, <<"tag", "end">>,
                              <<"tag", "raised">>, <<"end", "done">>}]_vars

\* the call on LongSample returned after one iteration of the line-break loop and three
\* of the tag loop, the first in the url arm, whose replacement and escapes are in the
\* text returned
C23_Witness ==
    /\ pc = "done"
    /\ input.text = LongSample
    /\ Len(taken) = 3
    /\ taken[1].branch = "url"
    /\ taken[1].exit = "next"
    /\ result = "a\n\nb\\*\\ [t](u)\\ *_ **c\\_ *"

(* ---------------------------------------------------------------------------------- *)
(* C24: exceptions                                                                     *)
(* ---------------------------------------------------------------------------------- *)

\* C24 (as stated): for every text, context and symbol table, format_text_block returns
\* normally and reports every problem through the error and warning counters only; it
\* never raises an exception.
C24_AsStated == pc # "raised" /\ raised = ""

(* ---------------------------------------------------------------------------------- *)
(* C25: what a call writes                                                             *)
(* ---------------------------------------------------------------------------------- *)

\* q with some messages added at its end
Extends(q2, q) == Len(q2) >= Len(q) /\ SubSeq(q2, 1, Len(q)) = q

\* C25: no step of a call of format_text_block writes state.classes or
\* state.current_class. Of the state it writes the error counter, the warning counter
\* and the hits of the parity check only: each message printed raises its counter by
\* exactly 1, the messages printed before stay, and no counter ever goes down.
C25_WritesDiagnosticsOnly ==
    [][Running =>
          /\ classes' = classes
          /\ current_class' = current_class
          /\ Extends(errors', errors)
          /\ Extends(warnings', warnings)
          /\ num_errors' = num_errors + (Len(errors') - Len(errors))
          /\ num_warnings' = num_warnings + (Len(warnings') - Len(warnings))
          /\ parity_hits' >= parity_hits
      ]_vars

\* a call has returned after it printed errors and a warning; the counters hold their
\* numbers, and the table and the current class are those the call was given
C25_Witness ==
    /\ pc = "done"
    /\ Len(errors) >= 2
    /\ Len(warnings) = 1
    /\ num_errors = Len(errors)
    /\ num_warnings = 1
    /\ classes = input.classes
    /\ current_class = input.current_class

(* ---------------------------------------------------------------------------------- *)
(* C26, C27, C28: the symbol table and the run of main                                 *)
(* ---------------------------------------------------------------------------------- *)

\* the XML files found under the input path, subdirectories included
XmlFiles == {e \in Range(input.path) : EndsWith(e.file, ".xml")}

\* the state is built: the loop over the documents is over
StateBuilt == pc \in {"classes", "done"}

\* the error of line 488
ParseException(name) == name \o ".xml: Exception while parsing class: boom"

\* C26: an exception that parse_class raises on one document is printed as exactly one
\* error and the loop goes on with the next document; when the state is built, every
\* document on which parse_class did not raise has its class in the state, and as many
\* errors are counted as there are documents on which it raised (the errors that main
\* prints later, while it writes the classes, come on top).
C26_ParseExceptionIsOneError ==
    /\ [][(pc = "parse" /\ todo # <<>> /\ Head(todo).raises) =>
             /\ errors' = Append(errors, ParseException(Head(todo).name))
             /\ num_errors' = num_errors + 1
             /\ todo' = Tail(todo)
             /\ pc' = "parse"
             /\ raised' = ""]_vars
    /\ [](StateBuilt =>
             /\ \A i \in DOMAIN xml_data :
                   ~xml_data[i].raises => xml_data[i].name \in DOMAIN classes
             /\ Mentions(errors, "Exception while parsing class")
                   = Cardinality({i \in DOMAIN xml_data : xml_data[i].raises})
             /\ written = <<>> =>
                   num_errors = Cardinality({i \in DOMAIN xml_data : xml_data[i].raises}))

\* of the documents A, B and C, parse_class raised on B, the second: one error is
\* counted, and A and C are in the state
C26_Witness ==
    /\ StateBuilt
    /\ Len(xml_data) = 3
    /\ xml_data[2].raises
    /\ {"A", "C"} \subseteq DOMAIN classes
    /\ errors = <<ParseException("B")>>
    /\ num_errors = 1

\* C27 (as stated): for any input directory, the state built from it holds exactly as
\* many classes as there are .xml files in that directory.
C27_AsStated == StateBuilt => Cardinality(DOMAIN classes) = Cardinality(XmlFiles)

\* C27 (amended): the state built from an input directory holds classes under the names
\* of the roots of its .xml files only, never more classes than files; when parse_class
\* raised on none of them it holds exactly one class for each name, so that it holds as
\* many classes as there are .xml files exactly when no two files carry the same name.
C27_OneClassPerName ==
    StateBuilt =>
        LET names == {e.name : e \in XmlFiles}
        IN  /\ DOMAIN classes \subseteq names
            /\ Cardinality(DOMAIN classes) <= Cardinality(XmlFiles)
            /\ (\A e \in XmlFiles : ~e.raises) =>
                  /\ DOMAIN classes = names
                  /\ (Cardinality(DOMAIN classes) = Cardinality(XmlFiles)
                        <=> \A e, f \in XmlFiles : e.name = f.name => e = f)

\* the directory held A.xml, C.xml and sub/A.xml: three files, and two classes
C27_Witness ==
    /\ StateBuilt
    /\ Cardinality(XmlFiles) = 3
    /\ \A e \in XmlFiles : ~e.raises
    /\ DOMAIN classes = {"A", "C"}
    /\ num_errors = 0

\* the input path holds no XML file
NoXml == XmlFiles = {}

\* C28: a run of main on an input path without XML files ends, and not by an exception:
\* it writes no file of a class or of an enum, and the one file it writes is the table of
\* contents, written after the loop over the classes, with an empty list of classes.
C28_EmptyRunWritesToc ==
    /\ [](NoXml => /\ pc # "raised"
                   /\ \A i \in DOMAIN written : written[i] = make_yml_toc(<<>>))
    /\ [][written' # written /\ written'[Len(written')].kind = "toc" =>
             pc = "classes" /\ todo = <<>> /\ pc' = "done"]_vars
    /\ (NoXml ~> (pc = "done" /\ written = <<make_yml_toc(<<>>)>>))

\* main has ended on a directory that holds notes.txt only: toc.yml is the one file
\* written, and it lists no class
C28_Witness ==
    /\ pc = "done"
    /\ Len(input.path) = 1
    /\ NoXml
    /\ classes = <<>>
    /\ class_files = <<>>
    /\ written = <<[kind |-> "toc", file |-> "toc.yml", items |-> <<>>]>>

(* ---------------------------------------------------------------------------------- *)
(* C29, C30: escaping                                                                  *)
(* ---------------------------------------------------------------------------------- *)

RECURSIVE EscapedUpTo(_, _, _)
\* the characters i .. n-1 of s, each backslash and "*" with a backslash before it, and
\* each "_" whose next character in s is not alphanumeric
EscapedUpTo(s, i, n) ==
    IF i >= n THEN ""
    ELSE LET c == CharAt(s, i)
         IN  (IF c \in {"\\", "*"} \/ (c = "_" /\ ~IsAlnum(CharAt(s, i + 1)))
              THEN "\\" \o c ELSE c) \o EscapedUpTo(s, i + 1, n)

\* the place of the first "[" of s, or its length when it has none
FirstBracket(s) == IF Find(s, "[", 0) = -1 THEN Len(s) ELSE Find(s, "[", 0)

\* C29 (as stated): the escaping pre-pass escapes every backslash and every "*" before
\* the first "[" of the text (or anywhere in the text when it has no "["), and a "_" in
\* that range exactly when the next character is not alphanumeric; no character at or
\* after the first "[" is changed by the pre-pass.
C29_AsStated ==
    [][(pc = "linebreaks" /\ pc' = "tags") =>
          text' = EscapedUpTo(text, 0, FirstBracket(text))
                      \o SliceFrom(text, FirstBracket(text))
      ]_vars

\* what follows the tag that the loop is at, before any escaping: for a link, what
\* follows its [/url]
Following ==
    IF Branch = "url" /\ TagState.arguments # "" /\ Find(text, "[/url]", endq_pos + 1) # -1
    THEN SliceFrom(text, Find(text, "[/url]", endq_pos + 1) + 6)
    ELSE post_text

\* C30 (as stated): after each tag substitution, outside a code region, the text between
\* the tag and the next "[" is escaped with the rules of the pre-pass (backslash, "*",
\* and "_" not followed by an alphanumeric), for every tag kind including [url]; inside
\* a code region that text is left as it is. Stated for the class names, the formatting
\* tags, the unknown tags and the links, after which the scan is outside a code region,
\* and for the tags met inside a code region that do not close it.
C30_AsStated ==
    [][(pc = "tag" /\ pc' = "tags") =>
          LET escaped == EscapedUpTo(Following, 0, FirstBracket(Following))
                             \o SliceFrom(Following, FirstBracket(Following))
          IN  /\ Branch \in {"class", "format", "invalid"} => post_text' = escaped
              /\ Branch = "url" => post_text' \in {escaped, "\\ " \o escaped}
              /\ (Branch = "inside_code" /\ inside_code') => post_text' = post_text
      ]_vars

---------------------------------------------------------------------------
(* C31: the line-break pass (lines 376-410).                               *)

RECURSIVE LStripTabs(_)
\* s without its leading tabs
LStripTabs(s) == IF StartsWith(s, "\t") THEN LStripTabs(SliceFrom(s, 1)) ELSE s

\* s starts with an opening [codeblock], [gdscript] or [csharp] tag
BlockTagAhead(s) ==
    \E name \in {"codeblock", "gdscript", "csharp"} :
        \E c \in {"]", " "} : StartsWith(s, "[" \o name \o c)

\* the line break that the pass has found, and what follows its tabs
FoundLineBreak == pc = "linebreaks" /\ Find(text, "\n", pos) # -1

AfterLineBreak == LStripTabs(SliceFrom(text, Find(text, "\n", pos) + 1))

\* the step hands the line break to format_codeblock: the text is what format_codeblock
\* makes of the block, or the call returns "" where it finds no closing tag
HandedToBlock ==
    LET nl     == Find(text, "\n", pos)
        indent == Len(SliceFrom(text, nl + 1)) - Len(AfterLineBreak)
        r      == format_codeblock(get_tag_and_args(Split(SliceFrom(AfterLineBreak, 1), "]")[1]),
                                   AfterLineBreak, indent)
    IN  /\ errors' = errors \o r.errs
        /\ r.ok => text' = Slice(text, 0, nl) \o r.text /\ pc' = "linebreaks"
        /\ ~r.ok => pc' = "done" /\ result' = ""

---------------------------------------------------------------------------
(* C32: the block sub-scan, format_codeblock (lines 258-313).              *)

\* a line break of the pass is followed by a block tag: the block is scanned in this step
BlockFound == FoundLineBreak /\ BlockTagAhead(AfterLineBreak)

\* the number of tabs between the line break and the block tag
BlockIndent == Len(SliceFrom(text, Find(text, "\n", pos) + 1)) - Len(AfterLineBreak)

\* the opening tag of the block without its brackets, and its name
BlockTag == Split(SliceFrom(AfterLineBreak, 1), "]")[1]

\* the first closing tag of the block's name after the line break, or -1
BlockClose == Find(AfterLineBreak, "[/" \o BlockName(BlockTag) \o "]", 0)

\* what stands between the opening tag and that closing tag
BlockBody == Slice(AfterLineBreak, Len(BlockTag) + 2, BlockClose)

\* the number of tabs that follow index i of s
TabsAfter(s, i) == Len(SliceFrom(s, i + 1)) - Len(LStripTabs(SliceFrom(s, i + 1)))

\* the line breaks of the body whose line starts with more tabs than the block has
OverIndented ==
    {i \in 0..(Len(BlockBody) - 1) :
        CharAt(BlockBody, i) = "\n" /\ TabsAfter(BlockBody, i) > BlockIndent}

RECURSIVE Untabbed(_)
\* s without the tabs that start its lines
Untabbed(s) ==
    IF s = "" THEN ""
    ELSE IF StartsWith(s, "\n") THEN "\n" \o Untabbed(LStripTabs(SliceFrom(s, 1)))
    ELSE CharAt(s, 0) \o Untabbed(SliceFrom(s, 1))

\* the language written behind the opening fence
FenceLanguage == IF BlockName(BlockTag) = "codeblock" THEN "gdscript" ELSE BlockName(BlockTag)

\* what the step has put around the body: the text before the line break, the opening tag
\* and the fence before it, the fence and the text from the closing tag on behind it
BlockHead ==
    Slice(text, 0, Find(text, "\n", pos)) \o "\n[" \o BlockTag \o "]" \o Fence \o FenceLanguage

BlockRest == Fence \o SliceFrom(AfterLineBreak, BlockClose)

\* a line of the body starts with five tabs or more: line 298 then moves code_pos back to
\* the line break or before it, and the line is given four spaces a second time
DeepTabs == Find(BlockBody, "\n\t\t\t\t\t", 0) # -1

---------------------------------------------------------------------------
(* C33: get_tag_and_args (lines 182-206).                                  *)

\* the indexes of t that hold a space or a "="
Delimiters(t) == {i \in 0..(Len(t) - 1) : CharAt(t, i) \in {" ", "="}}

\* the first of them
FirstDelimiter(t) == CHOOSE i \in Delimiters(t) : \A j \in Delimiters(t) : i <= j

\* what stands before the first delimiter: all of t where there is none
BeforeDelimiter(t) == IF Delimiters(t) = {} THEN t ELSE Slice(t, 0, FirstDelimiter(t))

\* C33: get_tag_and_args splits the contents of the brackets at the first space or "=",
\* whichever comes first: the part before is the tag name, the part after, trimmed, is the
\* argument string; a leading "/" of the name is removed and sets the closing flag; with
\* neither a space nor a "=" the arguments are empty; the raw text is kept unchanged.
C33_SplitsAtFirstDelimiter ==
    pc = "tag" =>
        LET ts     == get_tag_and_args(tag_text)
            before == BeforeDelimiter(tag_text)
        IN  /\ ts.raw = tag_text
            /\ Delimiters(tag_text) = {} => ts.arguments = ""
            /\ Delimiters(tag_text) # {} =>
                  /\ ts.arguments = Strip(SliceFrom(tag_text, FirstDelimiter(tag_text) + 1))
                  /\ \A w \in Whitespace :
                        ~StartsWith(ts.arguments, w) /\ ~EndsWith(ts.arguments, w)
            /\ ts.closing = StartsWith(before, "/")
            /\ (IF ts.closing THEN "/" ELSE "") \o ts.name = before

\* the loop is at a tag with a "=" before its first space and a space at its end
C33_Witness ==
    /\ pc = "tag"
    /\ tag_text = "color=a b "
    /\ get_tag_and_args(tag_text)
          = [raw |-> "color=a b ", name |-> "color", arguments |-> "a b", closing |-> FALSE]
    /\ get_tag_and_args("/b  c=d")
          = [raw |-> "/b  c=d", name |-> "b", arguments |-> "c=d", closing |-> TRUE]

---------------------------------------------------------------------------
(* C34: the token of a [method ...] tag (lines 692-802).                   *)

\* the scan took a [method T] tag last, T being Name or Class.Name, and went on
TookMethod ==
    /\ last.branch = "crosslink"
    /\ last.exit = "next"
    /\ get_tag_and_args(last.raw).name = "method"
    /\ NameOrClassName(get_tag_and_args(last.raw).arguments)

\* the method that the tag taken last names
MethodTarget == get_tag_and_args(last.raw).arguments

\* its name starts with an underscore
PrivateTarget == StartsWith(TargetName(MethodTarget), "_")

---------------------------------------------------------------------------
(* C35: sanitize_operator_name (lines 360-368) and operator_lookup (37-59). *)

\* the operator symbol of a name: the name without "operator " (line 361)
OperatorSymbol(name) == Replace(name, "operator ", "")

\* the names that the calls made so far were given, in order
Sanitized == SubSeq(input.operators, 1, Len(written))

\* C35: for every operator symbol of the lookup table sanitize_operator_name returns the
\* identifier of the table and emits no error, and distinct symbols of the table are given
\* distinct identifiers; for any symbol outside the table it emits exactly one error
\* ('Unsupported operator type'), returns the fallback name "xxx", which is no identifier
\* of the table, and does not raise.
C35_OperatorNames ==
    /\ pc \in {"operators", "done"}
    /\ raised = ""
    /\ Len(written) <= Len(input.operators)
    /\ pc = "done" => Len(written) = Len(input.operators)
    /\ \A i \in DOMAIN written :
          IF OperatorSymbol(Sanitized[i]) \in DOMAIN operator_lookup
          THEN /\ written[i] = operator_lookup[OperatorSymbol(Sanitized[i])]
               /\ written[i] # "xxx"
               /\ Mentions(errors, "\"" \o Sanitized[i] \o "\"") = 0
          ELSE /\ written[i] = "xxx"
               /\ Occurrences(errors, "Unsupported operator type \"" \o Sanitized[i]
                                         \o "\", please add the missing rule.")
                     = Cardinality({j \in DOMAIN written : Sanitized[j] = Sanitized[i]})
    /\ \A i, j \in DOMAIN written :
          (/\ OperatorSymbol(Sanitized[i]) \in DOMAIN operator_lookup
           /\ OperatorSymbol(Sanitized[j]) \in DOMAIN operator_lookup
           /\ OperatorSymbol(Sanitized[i]) # OperatorSymbol(Sanitized[j]))
              => written[i] # written[j]
    /\ num_errors = Len(errors)
    /\ Len(errors)
          = Cardinality({i \in DOMAIN written :
                            OperatorSymbol(Sanitized[i]) \notin DOMAIN operator_lookup})

\* an operator of the table and one that the table does not hold were signed: the first
\* got its identifier, the second the fallback name and one error
C35_Witness ==
    /\ pc = "done"
    /\ input.operators = <<"operator ==", "operator ===">>
    /\ written = <<"eq", "xxx">>
    /\ errors = <<"Unsupported operator type \"operator ===\", please add the missing rule.">>
    /\ num_errors = 1

---------------------------------------------------------------------------
(* C36: _get_class_inheritance (gdxml2yml.py:102-113).                     *)

\* the class named x is in the table and names a parent
HasParent(x) == x \in DOMAIN classes /\ classes[x].inherits # ""

\* the parent that the class named x names
ParentOf(x) == Strip(classes[x].inherits)

RECURSIVE Up(_, _)
\* the classes reached from x by one to k steps from a class to its parent
Up(x, k) == IF k = 0 \/ ~HasParent(x) THEN {} ELSE {ParentOf(x)} \cup Up(ParentOf(x), k - 1)

\* a class that is its own ancestor can be reached from the class walked
CycleReachable ==
    LET n == Cardinality(DOMAIN classes)
    IN  \E x \in {input.class_name} \cup Up(input.class_name, n) : x \in Up(x, n)

RECURSIVE Ancestor(_)
\* the k-th ancestor of the class walked, the nearest being the first
Ancestor(k) ==
    IF k = 1 THEN ParentOf(input.class_name) ELSE ParentOf(Ancestor(k - 1))

\* the list returned holds the ancestors of the class, nearest first (the first as the
\* stripped name, the later ones as the table writes them), all but the last in the table
\* with a parent, the last one absent from the table or without a parent
AncestorsReturned ==
    /\ written # <<>>
    /\ \A i \in DOMAIN written :
          /\ Strip(written[i]) = Ancestor(i)
          /\ written[i] = IF i = 1 THEN Ancestor(1)
                          ELSE classes[Ancestor(i - 1)].inherits
          /\ i < Len(written) => HasParent(Ancestor(i))
    /\ ~HasParent(Ancestor(Len(written)))

\* C36: the walk _get_class_inheritance terminates for every class whose chain of parents
\* holds no cycle, and returns the ancestors nearest first, up to and including the first
\* ancestor that is absent from the symbol table or has no parent; where a cycle of the
\* inherits relation can be reached from the class, the walk never terminates.
C36_WalkEndsUnlessCycle ==
    /\ [](pc = "done" /\ HasParent(input.class_name) => AncestorsReturned)
    /\ [](CycleReachable => pc # "done")
    /\ (pc = "inheritance" /\ ~CycleReachable) ~> (pc = "done")

\* the walk from A through B and C has returned at X, which the table does not hold
C36_Witness ==
    /\ pc = "done"
    /\ input.class_name = "A"
    /\ classes["A"].inherits = "B"
    /\ classes["B"].inherits = "C"
    /\ classes["C"].inherits = "X"
    /\ written = <<"B", "C", "X">>

---------------------------------------------------------------------------
(* C37: an opening [code] tag that nothing closes (lines 549-565, 958-964). *)

\* the error of lines 558-562
NoClosingCode ==
    current_class \o ".xml: Tag depth mismatch for [code]: no closing [/code] in "
        \o context_name \o "."

\* the k-th tag taken was an opening [code] tag, met outside code
OpenedCode(k) ==
    /\ taken[k].branch = "code"
    /\ ~get_tag_and_args(taken[k].raw).closing

\* it was written with skip-lint
WithSkipLint(k) == "skip-lint" \in Range(Split(get_tag_and_args(taken[k].raw).arguments, " "))

\* s holds no closing code tag, neither "[/code]" nor one with a space or a "=" behind the
\* name
NoCodeClose(s) ==
    \A p \in 0..(Len(s) - 1) :
        Slice(s, p, p + 6) = "[/code" => CharAt(s, p + 6) \notin {"]", " ", "="}

\* the k-th tag taken is an opening [code] tag without skip-lint that no "[/code]" follows
UnclosedCode(k) ==
    OpenedCode(k) /\ ~WithSkipLint(k) /\ Find(taken[k].post, "[/code]", 0) = -1

\* the k-th tag taken is an opening [code] tag with skip-lint that no closing code tag
\* follows
UnclosedSkipLint(k) ==
    OpenedCode(k) /\ WithSkipLint(k) /\ NoCodeClose(taken[k].post)

\* C37: an opening [code] tag without skip-lint that no "[/code]" follows stops the scan
\* at that tag: the error 'no closing [/code]' is printed and then, the depth having been
\* raised before, the error 'Tag depth mismatch', and the text returned holds the tag as it
\* was written and what follows it untouched, no later tag being taken. With skip-lint
\* the tag prints nothing, every later tag is taken (as code), and the only error printed
\* from the tag on is the one 'Tag depth mismatch' at the end.
C37_AsStated ==
    \A k \in DOMAIN taken :
        /\ UnclosedCode(k) =>
              /\ k = Len(taken)
              /\ pc \in {"end", "done"}
              /\ taken[k].errs = <<NoClosingCode>>
              /\ text = pre_text \o "[" \o taken[k].raw \o "]" \o taken[k].post
              /\ pc = "done" =>
                    /\ result = text
                    /\ Len(errors) >= 2
                    /\ SubSeq(errors, Len(errors) - 1, Len(errors))
                          = <<NoClosingCode, DepthMismatch>>
        /\ UnclosedSkipLint(k) =>
              /\ pc # "raised"
              /\ taken[k].exit = "next"
              /\ \A j \in k..Len(taken) : taken[j].errs = <<>>
              /\ pc = "done" =>
                    /\ Len(errors) >= 1
                    /\ Last(errors) = DepthMismatch
                    /\ Mentions(errors, "no closing [/code]") = 0

\* What holds of the unclosed [code] tag: all of the above but the final error, which is
\* printed when the depth the tag leaves is positive, and not printed when closing tags
\* without an opening one came before it.
C37_UnclosedCode ==
    \A k \in DOMAIN taken :
        /\ UnclosedCode(k) =>
              /\ k = Len(taken)
              /\ pc \in {"end", "done"}
              /\ taken[k].errs = <<NoClosingCode>>
              /\ text = pre_text \o "[" \o taken[k].raw \o "]" \o taken[k].post
              /\ pc = "done" =>
                    /\ result = text
                    /\ tag_depth > 0 =>
                          /\ Len(errors) >= 2
                          /\ SubSeq(errors, Len(errors) - 1, Len(errors))
                                = <<NoClosingCode, DepthMismatch>>
                          /\ Occurrences(errors, DepthMismatch) = 1
                    /\ tag_depth <= 0 =>
                          /\ Last(errors) = NoClosingCode
                          /\ Occurrences(errors, DepthMismatch) = 0
        /\ UnclosedSkipLint(k) =>
              /\ pc # "raised"
              /\ taken[k].exit = "next"
              /\ taken[k].out = Literal
              /\ \A j \in k..Len(taken) : taken[j].errs = <<>>
              /\ \A j \in (k + 1)..Len(taken) : taken[j].branch = "inside_code"
              /\ pc \in {"end", "done"} =>
                    Len(taken) = k + Len(TagsOf("[" \o taken[k].raw \o "]" \o taken[k].post)) - 1
              /\ pc = "done" =>
                    /\ Mentions(errors, "no closing [/code]") = 0
                    /\ StartsWith(SliceFrom(result, Len(result) - Len(taken[k].post) - 2),
                                  Literal)
                    /\ tag_depth > 0 =>
                          /\ Last(errors) = DepthMismatch
                          /\ Occurrences(errors, DepthMismatch) = 1
                    /\ tag_depth <= 0 => Occurrences(errors, DepthMismatch) = 0

\* the description with an unclosed [code] inside an open [b] was transpiled, and then
\* once more with skip-lint on the tag: two errors and the tag left in the text the first
\* time, one error and the region opened the second time
C37_Witness ==
    /\ pc = "done"
    /\ earlier.made
    /\ earlier.text = "a[b]_ [code]x[i][/b]"
    /\ earlier.result = "a**\\_ [code]x[i][/b]"
    /\ earlier.errors = <<NoClosingCode, DepthMismatch>>
    /\ input.text = "a[b]_ [code skip-lint]x[i][/b]"
    /\ result = "a**\\_ " \o Literal \o "x[i][/b]"
    /\ errors = <<DepthMismatch>>

---------------------------------------------------------------------------
(* C38: the order of main (gdxml2yml.py lines 500-534). *)

\* the class file of class n
ClassFile(n) == "class_" \o lower(n) \o ".yml"

\* the file f is the file of class n or of one of its enums
FileOf(f, n) ==
    \/ f.kind = "class" /\ f.file = ClassFile(n)
    \/ f.kind = "enum" /\ StartsWith(f.file, "enum_" \o n \o "_")

\* the class the brief description of class n refers to
Referred(n) ==
    LET d == brief_description[classes[n].filepath]
    IN  Slice(d, 1, Len(d) - 1)

\* the error printed when a reference to class n is not resolved
UnknownClass(n) == "Unrecognized opening tag \"[" \o n \o "]\""

\* the tables of contents written
Tocs == {k \in DOMAIN written : written[k].kind = "toc"}

====
